---------------------------- MODULE Spec2Model ----------------------------
(***************************************************************************)
(* A state-machine model of luacInJs (src/index.js), an interpreter for    *)
(* pre-compiled Lua 5.1 bytecode.                                          *)
(*                                                                         *)
(* src/index.js holds two revisions of the interpreter, one after the      *)
(* other:                                                                  *)
(*   lines    1..2089  the executor LuaVM.runCoroutine, whose frame state  *)
(*                     (pc, top, regs, openUpValues) lives in an           *)
(*                     LVCoroutine object, with the coroutine library;     *)
(*   lines 2090..4026  the executor LuaVM.runClosure, whose frame state    *)
(*                     lives in local variables; it has no coroutines.     *)
(* The variable revision says which of the two executes the chunk.         *)
(*                                                                         *)
(* One action models one opcode handler of the executor's switch.  A       *)
(* handler that calls a Lua function is suspended on the native (JS) call  *)
(* stack while the callee's activation runs; the action ReturnToCaller     *)
(* models the rest of that handler, executed when the callee returns.      *)
(*                                                                         *)
(* A behaviour begins with a byte buffer: the action constructor models    *)
(* new LuaVM(data), which reads the header and the prototypes from it, and  *)
(* the action run models vm.run(), as src/test/test.js calls them.  The     *)
(* buffers are chunks written in the format the reader reads.               *)
(***************************************************************************)
EXTENDS Integers, Sequences, FiniteSets, TLC

(***************************************************************************)
(* Bounds of the model.                                                    *)
(***************************************************************************)
\* Numeric constants of the chunks are drawn from 1..MaxVal.
MaxVal == 2
\* The events of a run after which no jump is followed
MaxHistory == 60

(***************************************************************************)
(* Values (the LV* classes).  A value is a record with a type field, the   *)
(* type name LVBase keeps, and one payload field.  Objects with identity   *)
(* (closures, coroutines, tables) are references into the heap variables.  *)
(***************************************************************************)
LVNil == [type |-> "nil"]
LVNumber(n) == [type |-> "number", num |-> n]
LVBoolean(b) == [type |-> "boolean", bool |-> b]
LVString(s) == [type |-> "string", str |-> s]
\* An LVString made from a constant of the chunk: ref tells the objects
\* (each with its own Uint8Array) of equal payloads apart.
LVStringAt(s, ref) == [type |-> "string", str |-> s, ref |-> ref]
\* A host function, named by the global or library field it is stored in.
LVFunction(name) == [type |-> "function", host |-> name]
\* A reference to closures[i].
LVClosure(i) == [type |-> "function", closure |-> i]
\* A reference to coroutines[i].
LVCoroutine(i) == [type |-> "thread", coroutine |-> i]
\* A reference to tables[i].
LVTable(i) == [type |-> "table", table |-> i]
\* The JS value undefined: a missing argument, a hole of an array.
Undefined == [type |-> "undefined"]

\* The JS values that are no LV objects: numbers, strings (an ASCII string is
\* given by its bytes), booleans, null and host function objects
JSNumber(n) == [js |-> "number", num |-> n]
JSString(s) == [js |-> "string", str |-> s]
JSBoolean(b) == [js |-> "boolean", bool |-> b]
JSNull == [js |-> "null"]
JSFunction(name) == [js |-> "function", host |-> name]
IsJS(v) == "js" \in DOMAIN v

IsLVBase(v) ==
    ~IsJS(v) /\ v.type \in {"nil", "number", "boolean", "string", "function", "thread", "table"}
IsHost(v) == v.type = "function" /\ "host" \in DOMAIN v
IsClosure(v) == v.type = "function" /\ "closure" \in DOMAIN v
IsCoroutine(v) == v.type = "thread"

\* A result of a JS function of the interpreter: an LVTuple or a single value.
LVTuple(vs) == [tuple |-> TRUE, values |-> vs]
Single(v) == [tuple |-> FALSE, value |-> v]

\* wrap(context, value): an LV object is kept, a number, string, boolean or
\* function is made an LV object, and null, undefined and any object are nil
wrap(v) ==
    IF IsLVBase(v) THEN v
    ELSE IF ~IsJS(v) THEN LVNil
    ELSE CASE v.js = "number" -> LVNumber(v.num)
           [] v.js = "string" -> LVString(v.str)
           [] v.js = "boolean" -> LVBoolean(v.bool)
           [] v.js = "function" -> LVFunction(v.host)
           [] OTHER -> LVNil

\* unwrap(value): the string an LVString decodes to, value.value of any other
\* LV object (LVClosure, LVCoroutine and LVTable have none), or the value itself
unwrap(value) ==
    IF IsJS(value) \/ ~IsLVBase(value) THEN value
    ELSE CASE value.type = "string" -> JSString(value.str)
           [] value.type = "number" -> JSNumber(value.num)
           [] value.type = "boolean" -> JSBoolean(value.bool)
           [] value.type = "nil" -> JSNull
           [] IsHost(value) -> JSFunction(value.host)
           [] OTHER -> Undefined

\* normalize(context, result): the array of values of a result.
normalize(r) == IF r.tuple THEN r.values ELSE <<wrap(r.value)>>

(***************************************************************************)
(* JS arrays, indexed from 0, over sequences.                              *)
(***************************************************************************)
Max(a, b) == IF a >= b THEN a ELSE b
Min(a, b) == IF a <= b THEN a ELSE b

\* a[i]
ArrGet(a, i) == IF i >= 0 /\ i < Len(a) THEN a[i + 1] ELSE Undefined
\* a[i] = v: an index past the end extends the array with holes.
ArrSet(a, i, v) ==
    [j \in 1..Max(Len(a), i + 1) |->
        IF j = i + 1 THEN v ELSE IF j <= Len(a) THEN a[j] ELSE Undefined]
\* a.slice(s, e) for 0 <= s
ArrSlice(a, s, e) ==
    LET hi == Min(e, Len(a))
    IN  IF hi <= s THEN << >> ELSE [j \in 1..(hi - s) |-> a[s + j]]
\* v ?? d
Coalesce(v, d) == IF v = Undefined THEN d ELSE v

(***************************************************************************)
(* Instructions.                                                           *)
(***************************************************************************)
LUA_OPCODES ==
    << "MOVE",
       "LOADK", "LOADBOOL", "LOADNIL",
       "GETUPVAL", "GETGLOBAL", "GETTABLE",
       "SETGLOBAL", "SETUPVAL", "SETTABLE", "NEWTABLE",
       "SELF",
       "ADD", "SUB", "MUL", "DIV", "MOD", "POW",
       "UNM", "NOT", "LEN",
       "CONCAT",
       "JMP",
       "EQ", "LT", "LE",
       "TEST", "TESTSET",
       "CALL", "TAILCALL", "RETURN",
       "FORLOOP", "FORPREP", "TFORLOOP",
       "SETLIST",
       "CLOSE",
       "CLOSURE",
       "VARARG" >>

\* decodeInst(inst): the fields of a 32-bit instruction word.
decodeInst(inst) ==
    LET opcode == inst % 64
        Bx == inst \div 16384
    IN  [ opcode |-> opcode,
          name |-> IF opcode < Len(LUA_OPCODES) THEN LUA_OPCODES[opcode + 1] ELSE "undefined",
          A |-> (inst \div 64) % 256,
          C |-> (inst \div 16384) % 512,
          B |-> (inst \div 8388608) % 512,
          Bx |-> Bx,
          sBx |-> Bx - 131071 ]

\* The instruction words of the chunks below, as luac encodes them.
OpcodeOf(name) == (CHOOSE i \in 1..Len(LUA_OPCODES) : LUA_OPCODES[i] = name) - 1
iABC(name, a, b, c) == OpcodeOf(name) + a * 64 + c * 16384 + b * 8388608
iABx(name, a, bx) == OpcodeOf(name) + a * 64 + bx * 16384
iAsBx(name, a, sbx) == iABx(name, a, sbx + 131071)
\* An RK operand that names constant k.
K(k) == 256 + k


(***************************************************************************)
(* Prototypes and chunks.  A chunk is the tree of prototypes readPrototype *)
(* returns, flattened into a sequence: protos[1] is the main prototype and *)
(* nestedProtos holds indices into the sequence.                           *)
(***************************************************************************)
Proto(paramCount, upValueCount, maxStackSize, constants, insts, nestedProtos) ==
    [ paramCount |-> paramCount, upValueCount |-> upValueCount,
      isVarArg |-> FALSE, maxStackSize |-> maxStackSize,
      constants |-> constants, insts |-> insts, nestedProtos |-> nestedProtos ]

\* local co = coroutine.create(<proto 0>); _G.co = co
\* local ok1, v1 = coroutine.resume(co, k1)
\* local ok2, v2 = coroutine.resume(co, k2)
DriverInsts ==
    << iABx("GETGLOBAL", 0, 0), iABC("GETTABLE", 0, 0, K(1)), iABx("CLOSURE", 1, 0),
       iABC("CALL", 0, 2, 2), iABx("SETGLOBAL", 0, 3),
       iABx("GETGLOBAL", 1, 0), iABC("GETTABLE", 1, 1, K(2)), iABC("MOVE", 2, 0, 0),
       iABx("LOADK", 3, 4), iABC("CALL", 1, 3, 3),
       iABx("GETGLOBAL", 3, 0), iABC("GETTABLE", 3, 3, K(2)), iABC("MOVE", 4, 0, 0),
       iABx("LOADK", 5, 5), iABC("CALL", 3, 3, 3),
       iABC("RETURN", 0, 1, 0) >>
\* function g() ... end  (<proto 1>), ahead of the driver
DefineG == << iABx("CLOSURE", 0, 1), iABx("SETGLOBAL", 0, 6) >>
DriverConstants(k1, k2) ==
    << LVString("coroutine"), LVString("create"), LVString("resume"), LVString("co"),
       LVNumber(k1), LVNumber(k2), LVString("g") >>
Driver(k1, k2, withG) ==
    Proto(0, 0, 6, DriverConstants(k1, k2),
          IF withG THEN DefineG \o DriverInsts ELSE DriverInsts,
          IF withG THEN <<2, 3>> ELSE <<2>>)

\* function(a) local b = coroutine.yield(a) return b end
YieldBody ==
    Proto(1, 0, 3, << LVString("coroutine"), LVString("yield") >>,
          << iABx("GETGLOBAL", 1, 0), iABC("GETTABLE", 1, 1, K(1)), iABC("MOVE", 2, 0, 0),
             iABC("CALL", 1, 2, 2), iABC("RETURN", 1, 2, 0), iABC("RETURN", 0, 1, 0) >>,
          << >>)
\* function() g() return k2 end
NestedBody(k2) ==
    Proto(0, 0, 2, << LVString("g"), LVNumber(k2) >>,
          << iABx("GETGLOBAL", 0, 0), iABC("CALL", 0, 1, 1), iABx("LOADK", 0, 1),
             iABC("RETURN", 0, 2, 0), iABC("RETURN", 0, 1, 0) >>,
          << >>)
\* function g() coroutine.yield(k1) end
YieldingG(k1) ==
    Proto(0, 0, 2, << LVString("coroutine"), LVString("yield"), LVNumber(k1) >>,
          << iABx("GETGLOBAL", 0, 0), iABC("GETTABLE", 0, 0, K(1)), iABx("LOADK", 1, 2),
             iABC("CALL", 0, 2, 1), iABC("RETURN", 0, 1, 0) >>,
          << >>)
\* function() local x = nil; x() end
ErrorBody ==
    Proto(0, 0, 2, << >>,
          << iABC("LOADNIL", 0, 0, 0), iABC("CALL", 0, 1, 1), iABC("RETURN", 0, 1, 0) >>,
          << >>)
\* function() local ok = coroutine.resume(co) end
SelfBody ==
    Proto(0, 0, 2, << LVString("coroutine"), LVString("resume"), LVString("co") >>,
          << iABx("GETGLOBAL", 0, 0), iABC("GETTABLE", 0, 0, K(1)), iABx("GETGLOBAL", 1, 2),
             iABC("CALL", 0, 2, 2), iABC("RETURN", 0, 1, 0) >>,
          << >>)
\* function() return k1 end
ReturnOneBody(k1) ==
    Proto(0, 0, 2, << LVNumber(k1) >>,
          << iABx("LOADK", 0, 0), iABC("RETURN", 0, 2, 0), iABC("RETURN", 0, 1, 0) >>,
          << >>)
\* function() return k1, k2 end
ReturnTwoBody(k1, k2) ==
    Proto(0, 0, 2, << LVNumber(k1), LVNumber(k2) >>,
          << iABx("LOADK", 0, 0), iABx("LOADK", 1, 1), iABC("RETURN", 0, 3, 0),
             iABC("RETURN", 0, 1, 0) >>,
          << >>)
\* local co = coroutine.create(coroutine.yield)
CreateHostMain ==
    Proto(0, 0, 2, << LVString("coroutine"), LVString("create"), LVString("yield") >>,
          << iABx("GETGLOBAL", 0, 0), iABC("GETTABLE", 0, 0, K(1)),
             iABx("GETGLOBAL", 1, 0), iABC("GETTABLE", 1, 1, K(2)),
             iABC("CALL", 0, 2, 2), iABC("RETURN", 0, 1, 0) >>,
          << >>)

\* function(v) x = v end, x the upvalue 0
SetterProto ==
    Proto(1, 1, 2, << >>,
          << iABC("SETUPVAL", 0, 0, 0), iABC("RETURN", 0, 1, 0) >>, << >>)
\* function() return x end, x the upvalue 0
GetterProto ==
    Proto(0, 1, 2, << >>,
          << iABC("GETUPVAL", 0, 0, 0), iABC("RETURN", 0, 2, 0), iABC("RETURN", 0, 1, 0) >>,
          << >>)
\* local x = k1
\* local function set(v) x = v end
\* local function get() return x end
\* set(k2); local r = get(); x = k1; local s = get()
SharingMain(k1, k2) ==
    Proto(0, 0, 6, << LVNumber(k1), LVNumber(k2) >>,
          << iABx("LOADK", 0, 0),
             iABx("CLOSURE", 1, 0), iABC("MOVE", 0, 0, 0),
             iABx("CLOSURE", 2, 1), iABC("MOVE", 0, 0, 0),
             iABC("MOVE", 3, 1, 0), iABx("LOADK", 4, 1), iABC("CALL", 3, 2, 1),
             iABC("MOVE", 3, 2, 0), iABC("CALL", 3, 1, 2),
             iABx("LOADK", 0, 0),
             iABC("MOVE", 4, 2, 0), iABC("CALL", 4, 1, 2),
             iABC("RETURN", 0, 1, 0) >>,
          <<2, 3>>)
\* function mk() local x = k1; local function set(v) ... end
\*               local function get() ... end; return set, get end
MakerProto(k1) ==
    Proto(0, 0, 5, << LVNumber(k1) >>,
          << iABx("LOADK", 0, 0),
             iABx("CLOSURE", 1, 0), iABC("MOVE", 0, 0, 0),
             iABx("CLOSURE", 2, 1), iABC("MOVE", 0, 0, 0),
             iABC("MOVE", 3, 1, 0), iABC("MOVE", 4, 2, 0),
             iABC("RETURN", 3, 3, 0), iABC("RETURN", 0, 1, 0) >>,
          <<3, 4>>)
\* local set, get = mk(); set(k2); local r = get()
ClosedSharingMain(k2) ==
    Proto(0, 0, 5, << LVNumber(k2) >>,
          << iABx("CLOSURE", 0, 0), iABC("MOVE", 1, 0, 0), iABC("CALL", 1, 1, 3),
             iABC("MOVE", 3, 1, 0), iABx("LOADK", 4, 0), iABC("CALL", 3, 2, 1),
             iABC("MOVE", 3, 2, 0), iABC("CALL", 3, 1, 2),
             iABC("RETURN", 0, 1, 0) >>,
          <<2>>)
\* local a = k1; local fa = function() return a end
\* do local b = k2; local fb = function() return b end; _G.fb = fb end
\* local c = k1; local r = fb()
CloseScopeMain(k1, k2) ==
    Proto(0, 0, 5, << LVNumber(k1), LVNumber(k2), LVString("fb") >>,
          << iABx("LOADK", 0, 0),
             iABx("CLOSURE", 1, 0), iABC("MOVE", 0, 0, 0),
             iABx("LOADK", 2, 1),
             iABx("CLOSURE", 3, 0), iABC("MOVE", 0, 2, 0),
             iABx("SETGLOBAL", 3, 2),
             iABC("CLOSE", 2, 0, 0),
             iABx("LOADK", 2, 0),
             iABx("GETGLOBAL", 3, 2), iABC("CALL", 3, 1, 2),
             iABC("RETURN", 0, 1, 0) >>,
          <<2>>)
\* function h(f) return f() end
CallerProto ==
    Proto(1, 0, 2, << >>,
          << iABC("MOVE", 1, 0, 0), iABC("TAILCALL", 1, 1, 0), iABC("RETURN", 1, 0, 0),
             iABC("RETURN", 0, 1, 0) >>,
          << >>)
\* function h(f) ... end
\* local x = k1; local function get() return x end; x = k2; return h(get)
TailCallMain(k1, k2) ==
    Proto(0, 0, 4, << LVNumber(k1), LVNumber(k2), LVString("h") >>,
          << iABx("CLOSURE", 0, 0), iABx("SETGLOBAL", 0, 2),
             iABx("LOADK", 0, 0),
             iABx("CLOSURE", 1, 1), iABC("MOVE", 0, 0, 0),
             iABx("LOADK", 0, 1),
             iABx("GETGLOBAL", 2, 2), iABC("MOVE", 3, 1, 0),
             iABC("TAILCALL", 2, 2, 0), iABC("RETURN", 2, 0, 0),
             iABC("RETURN", 0, 1, 0) >>,
          <<2, 3>>)

\* local x = k1; local function get() return x end; local n = nil; n()
ErrorOpenMain(k1) ==
    Proto(0, 0, 3, << LVNumber(k1) >>,
          << iABx("LOADK", 0, 0),
             iABx("CLOSURE", 1, 0), iABC("MOVE", 0, 0, 0),
             iABC("LOADNIL", 2, 2, 0), iABC("CALL", 2, 1, 1),
             iABC("RETURN", 0, 1, 0) >>,
          <<2>>)

\* function <name>() return <callee>() end
TailCaller(callee) ==
    Proto(0, 0, 2, << LVString(callee) >>,
          << iABx("GETGLOBAL", 0, 0), iABC("TAILCALL", 0, 1, 0), iABC("RETURN", 0, 0, 0),
             iABC("RETURN", 0, 1, 0) >>,
          << >>)
\* function c() return k1 end; function b() return c() end
\* function a() return b() end; return a()
TailChainMain ==
    Proto(0, 0, 2, << LVString("c"), LVString("b"), LVString("a") >>,
          << iABx("CLOSURE", 0, 0), iABx("SETGLOBAL", 0, 0),
             iABx("CLOSURE", 0, 1), iABx("SETGLOBAL", 0, 1),
             iABx("CLOSURE", 0, 2), iABx("SETGLOBAL", 0, 2),
             iABx("GETGLOBAL", 0, 2), iABC("TAILCALL", 0, 1, 0), iABC("RETURN", 0, 0, 0),
             iABC("RETURN", 0, 1, 0) >>,
          <<2, 3, 4>>)

\* function() coroutine.yield(k1, k2, k1) end
YieldThreeBody(k1, k2) ==
    Proto(0, 0, 4, << LVString("coroutine"), LVString("yield"), LVNumber(k1), LVNumber(k2) >>,
          << iABx("GETGLOBAL", 0, 0), iABC("GETTABLE", 0, 0, K(1)),
             iABx("LOADK", 1, 2), iABx("LOADK", 2, 3), iABx("LOADK", 3, 2),
             iABC("CALL", 0, 4, 1), iABC("RETURN", 0, 1, 0) >>,
          << >>)
\* print(coroutine.resume(coroutine.create(<proto 0>)))
YieldThreeMain ==
    Proto(0, 0, 4, << LVString("print"), LVString("coroutine"), LVString("resume"),
                      LVString("create") >>,
          << iABx("GETGLOBAL", 0, 0),
             iABx("GETGLOBAL", 1, 1), iABC("GETTABLE", 1, 1, K(2)),
             iABx("GETGLOBAL", 2, 1), iABC("GETTABLE", 2, 2, K(3)),
             iABx("CLOSURE", 3, 0), iABC("CALL", 2, 2, 2),
             iABC("CALL", 1, 2, 0), iABC("CALL", 0, 0, 1),
             iABC("RETURN", 0, 1, 0) >>,
          <<2>>)
\* function() return k1, k2, k1 end
ReturnThreeBody(k1, k2) ==
    Proto(0, 0, 3, << LVNumber(k1), LVNumber(k2) >>,
          << iABx("LOADK", 0, 0), iABx("LOADK", 1, 1), iABx("LOADK", 2, 0),
             iABC("RETURN", 0, 4, 0), iABC("RETURN", 0, 1, 0) >>,
          << >>)
\* local f = <proto 0>; print(f())
ReturnThreeMain ==
    Proto(0, 0, 3, << LVString("print") >>,
          << iABx("CLOSURE", 0, 0), iABx("GETGLOBAL", 1, 0), iABC("MOVE", 2, 0, 0),
             iABC("CALL", 2, 1, 0), iABC("CALL", 1, 0, 1),
             iABC("RETURN", 0, 1, 0) >>,
          <<2>>)

\* return <constant 0>, the constant as it is encoded: [tag |-> t] is a
\* constant of the tag t alone, [bytes |-> b] a string constant of the payload b
ConstantMain(constant) ==
    Proto(0, 0, 2, << constant >>,
          << iABx("LOADK", 0, 0), iABC("RETURN", 0, 2, 0), iABC("RETURN", 0, 1, 0) >>,
          << >>)

\* A main prototype that begins with the instruction word of opcode 37 + k1,
\* which is none of the opcodes of LUA_OPCODES
InvalidOpcodeMain(k1) ==
    Proto(0, 0, 2, << >>, << Len(LUA_OPCODES) - 1 + k1, iABC("RETURN", 0, 1, 0) >>, << >>)

\* local t = {}; t[1] = k1; t[k2 + 1] = nil; return #t
TableLengthMain(k1, k2) ==
    Proto(0, 0, 2, << LVNumber(1), LVNumber(k2 + 1), LVNumber(k1), LVNil >>,
          << iABC("NEWTABLE", 0, 0, 0),
             iABx("LOADK", 1, 0), iABC("SETTABLE", 0, 1, K(2)),
             iABx("LOADK", 1, 1), iABC("SETTABLE", 0, 1, K(3)),
             iABC("LEN", 1, 0, 0), iABC("RETURN", 1, 2, 0), iABC("RETURN", 0, 1, 0) >>,
          << >>)
\* local t = {}; t.a = k1; t.a = nil; t.b = nil   (k2 = 1)
\* local t = {}; t[1] = k1; t[1] = nil; t[2] = nil   (otherwise)
\* with the key in a register
NilWriteMain(k1, k2) ==
    Proto(0, 0, 2,
          << IF k2 = 1 THEN LVString("a") ELSE LVNumber(1),
             IF k2 = 1 THEN LVString("b") ELSE LVNumber(2), LVNumber(k1), LVNil >>,
          << iABC("NEWTABLE", 0, 0, 0),
             iABx("LOADK", 1, 0), iABC("SETTABLE", 0, 1, K(2)), iABC("SETTABLE", 0, 1, K(3)),
             iABx("LOADK", 1, 1), iABC("SETTABLE", 0, 1, K(3)), iABC("RETURN", 0, 1, 0) >>,
          << >>)
\* local t, a, b = {}, {}, {}
\* t["true"] = k1; local x = t[true]; t["0"] = k1; x = t[0]; t[a] = k2 + 2; x = t[b]
\* with the string keys in a register
KeyIdentityMain(k1, k2) ==
    Proto(0, 0, 4,
          << LVBoolean(TRUE), [bytes |-> << 116, 114, 117, 101 >>], LVNumber(0),
             [bytes |-> << 48 >>], LVNumber(k1), LVNumber(k2 + 2) >>,
          << iABC("NEWTABLE", 0, 0, 0), iABC("NEWTABLE", 1, 0, 0), iABC("NEWTABLE", 2, 0, 0),
             iABx("LOADK", 3, 1), iABC("SETTABLE", 0, 3, K(4)), iABC("GETTABLE", 3, 0, K(0)),
             iABx("LOADK", 3, 3), iABC("SETTABLE", 0, 3, K(4)), iABC("GETTABLE", 3, 0, K(2)),
             iABC("SETTABLE", 0, 1, K(5)), iABC("GETTABLE", 3, 0, 2),
             iABC("RETURN", 0, 1, 0) >>,
          << >>)

\* local t = {}; t[key1] = k1; t[key2] = k1
\* local k = next(t, nil); k = next(t, k); k = next(t, k)
NextTraversalMain(k1, key1, key2) ==
    Proto(0, 0, 5, << key1, key2, LVNumber(k1), LVString("next") >>,
          << iABC("NEWTABLE", 0, 0, 0),
             iABx("LOADK", 1, 0), iABC("SETTABLE", 0, 1, K(2)),
             iABx("LOADK", 1, 1), iABC("SETTABLE", 0, 1, K(2)),
             iABx("GETGLOBAL", 2, 3), iABC("MOVE", 3, 0, 0), iABC("LOADNIL", 4, 4, 0),
             iABC("CALL", 2, 3, 3), iABC("MOVE", 1, 2, 0),
             iABx("GETGLOBAL", 2, 3), iABC("MOVE", 3, 0, 0), iABC("MOVE", 4, 1, 0),
             iABC("CALL", 2, 3, 3), iABC("MOVE", 1, 2, 0),
             iABx("GETGLOBAL", 2, 3), iABC("MOVE", 3, 0, 0), iABC("MOVE", 4, 1, 0),
             iABC("CALL", 2, 3, 3),
             iABC("RETURN", 0, 1, 0) >>,
          << >>)
\* local t = {}; t[key1] = k1; local k = next(t, key2)
NextUnknownMain(k1, key1, key2) ==
    Proto(0, 0, 5, << key1, key2, LVNumber(k1), LVString("next") >>,
          << iABC("NEWTABLE", 0, 0, 0),
             iABx("LOADK", 1, 0), iABC("SETTABLE", 0, 1, K(2)),
             iABx("GETGLOBAL", 2, 3), iABC("MOVE", 3, 0, 0), iABx("LOADK", 4, 1),
             iABC("CALL", 2, 3, 3),
             iABC("RETURN", 0, 1, 0) >>,
          << >>)
\* The string constant "1", by its payload
StringOne == [bytes |-> << 49 >>]

\* function(self, x) return x end
CallBody == Proto(2, 0, 2, << >>, << iABC("RETURN", 1, 2, 0), iABC("RETURN", 0, 1, 0) >>, << >>)
\* local t, mt = {}, {}; mt[field] = function(self, x) return x end
\* setmetatable(t, mt); t(k1)
CallMetaMain(k1, field) ==
    Proto(0, 0, 6, << LVString(field), LVString("setmetatable"), LVNumber(k1) >>,
          << iABC("NEWTABLE", 0, 0, 0), iABC("NEWTABLE", 1, 0, 0), iABx("CLOSURE", 2, 0),
             iABx("LOADK", 3, 0), iABC("SETTABLE", 1, 3, 2),
             iABx("GETGLOBAL", 3, 1), iABC("MOVE", 4, 0, 0), iABC("MOVE", 5, 1, 0),
             iABC("CALL", 3, 3, 1),
             iABC("MOVE", 3, 0, 0), iABx("LOADK", 4, 2), iABC("CALL", 3, 2, 2),
             iABC("RETURN", 0, 1, 0) >>,
          << 2 >>)
\* local co = coroutine.create(function(self, x) return x end); co(k1)
CallThreadMain(k1) ==
    Proto(0, 0, 2, << LVString("coroutine"), LVString("create"), LVNumber(k1) >>,
          << iABx("GETGLOBAL", 0, 0), iABC("GETTABLE", 0, 0, K(1)), iABx("CLOSURE", 1, 0),
             iABC("CALL", 0, 2, 2), iABx("LOADK", 1, 2), iABC("CALL", 0, 2, 1),
             iABC("RETURN", 0, 1, 0) >>,
          << 2 >>)

\* function(a, b) return k1, k1 end
ReturnPairBody(k1) ==
    Proto(2, 0, 4, << LVNumber(k1) >>,
          << iABx("LOADK", 2, 0), iABx("LOADK", 3, 0), iABC("RETURN", 2, 3, 0),
             iABC("RETURN", 0, 1, 0) >>,
          << >>)
\* local t, mt = {}, {}; mt.__add = <proto 0>; setmetatable(t, mt)
\* local r = t + k1; local s = k1 + k1
MetaAddMain(k1) ==
    Proto(0, 0, 6, << LVString("__add"), LVString("setmetatable"), LVNumber(k1) >>,
          << iABC("NEWTABLE", 0, 0, 0), iABC("NEWTABLE", 1, 0, 0), iABx("CLOSURE", 2, 0),
             iABx("LOADK", 3, 0), iABC("SETTABLE", 1, 3, 2),
             iABx("GETGLOBAL", 3, 1), iABC("MOVE", 4, 0, 0), iABC("MOVE", 5, 1, 0),
             iABC("CALL", 3, 3, 1),
             iABC("ADD", 3, 0, K(2)), iABx("LOADK", 4, 2), iABC("ADD", 4, 4, K(2)),
             iABC("RETURN", 0, 1, 0) >>,
          << 2 >>)

\* local t, mt, mt2 = {}, {}, {}; mt[field] = k1
\* setmetatable(t, mt2); setmetatable(t, mt); local r = getmetatable(t)
\* setmetatable(t, mt2); r = getmetatable(t)
ProtectMain(k1, field) ==
    Proto(0, 0, 6,
          << LVString(field), LVNumber(k1), LVString("setmetatable"), LVString("getmetatable") >>,
          << iABC("NEWTABLE", 0, 0, 0), iABC("NEWTABLE", 1, 0, 0), iABC("NEWTABLE", 2, 0, 0),
             iABx("LOADK", 3, 0), iABC("SETTABLE", 1, 3, K(1)),
             iABx("GETGLOBAL", 3, 2), iABC("MOVE", 4, 0, 0), iABC("MOVE", 5, 2, 0),
             iABC("CALL", 3, 3, 1),
             iABx("GETGLOBAL", 3, 2), iABC("MOVE", 4, 0, 0), iABC("MOVE", 5, 1, 0),
             iABC("CALL", 3, 3, 1),
             iABx("GETGLOBAL", 3, 3), iABC("MOVE", 4, 0, 0), iABC("CALL", 3, 2, 2),
             iABx("GETGLOBAL", 3, 2), iABC("MOVE", 4, 0, 0), iABC("MOVE", 5, 2, 0),
             iABC("CALL", 3, 3, 1),
             iABx("GETGLOBAL", 3, 3), iABC("MOVE", 4, 0, 0), iABC("CALL", 3, 2, 2),
             iABC("RETURN", 0, 1, 0) >>,
          << >>)

\* select(index, k1, k2)
SelectMain(k1, k2, index) ==
    Proto(0, 0, 4, << LVString("select"), index, LVNumber(k1), LVNumber(k2) >>,
          << iABx("GETGLOBAL", 0, 0), iABx("LOADK", 1, 1), iABx("LOADK", 2, 2),
             iABx("LOADK", 3, 3), iABC("CALL", 0, 4, 1), iABC("RETURN", 0, 1, 0) >>,
          << >>)

\* local f = function(self, x) return x end; local r = f(k1, ...), with count arguments
CallArgsMain(k1, count) ==
    Proto(0, 0, 5, << LVNumber(k1) >>,
          << iABx("CLOSURE", 0, 0), iABC("MOVE", 1, 0, 0), iABx("LOADK", 2, 0),
             iABx("LOADK", 3, 0), iABx("LOADK", 4, 0), iABC("CALL", 1, count + 1, 2),
             iABC("RETURN", 0, 1, 0) >>,
          << 2 >>)

\* print(k1), the results kept as C tells
PrintCallMain(k1, C) ==
    Proto(0, 0, 4, << LVString("print"), LVNumber(k1) >>,
          << iABx("GETGLOBAL", 0, 0), iABx("LOADK", 1, 1), iABx("LOADK", 3, 1),
             iABC("CALL", 0, 2, C), iABC("RETURN", 0, 1, 0) >>,
          << >>)
\* function() return end
ReturnNothingBody == Proto(0, 0, 2, << >>, << iABC("RETURN", 0, 1, 0) >>, << >>)
\* local f = function() return end; local a, b = k1, k1; f(), the results kept as C tells
CallNothingMain(k1, C) ==
    Proto(0, 0, 4, << LVNumber(k1) >>,
          << iABx("CLOSURE", 0, 0), iABx("LOADK", 1, 0), iABx("LOADK", 2, 0),
             iABC("CALL", 0, 1, C), iABC("RETURN", 0, 1, 0) >>,
          << 2 >>)

\* function(s, c) return s[c] end
IterBody ==
    Proto(2, 0, 3, << >>,
          << iABC("GETTABLE", 2, 0, 1), iABC("RETURN", 2, 2, 0), iABC("RETURN", 0, 1, 0) >>,
          << >>)
\* for v in <proto 0>, {[1] = 2}, 1 do end, with C loop variables
GenericForMain(C) ==
    Proto(0, 0, 6, << LVNumber(1), LVNumber(2) >>,
          << iABx("CLOSURE", 0, 0), iABC("NEWTABLE", 1, 0, 0),
             iABx("LOADK", 2, 0), iABC("SETTABLE", 1, 2, K(1)), iABx("LOADK", 2, 0),
             iABC("TFORLOOP", 0, 0, C), iAsBx("JMP", 0, 0 - 2),
             iABC("RETURN", 0, 1, 0) >>,
          << 2 >>)
\* local t = {}; t[key1] = k1; t[key2] = k1; for k, v in pairs(t) do end
PairsForMain(k1, key1, key2) ==
    Proto(0, 0, 7, << key1, key2, LVNumber(k1), LVString("pairs") >>,
          << iABC("NEWTABLE", 0, 0, 0),
             iABx("LOADK", 1, 0), iABC("SETTABLE", 0, 1, K(2)),
             iABx("LOADK", 1, 1), iABC("SETTABLE", 0, 1, K(2)),
             iABx("GETGLOBAL", 1, 3), iABC("MOVE", 2, 0, 0), iABC("CALL", 1, 2, 4),
             iABC("TFORLOOP", 1, 0, 2), iAsBx("JMP", 0, 0 - 2),
             iABC("RETURN", 0, 1, 0) >>,
          << >>)
\* local x = k1; local function f ... end (get or set, x its upvalue 0)
\* for v in <proto 1>, {[1] = 2}, 1 do x = x + k2 end   (x = x + k2 once ahead of the loop)
\* f(k1); local s = x
JumpAliasMain(k1, k2) ==
    Proto(0, 0, 9, << LVNumber(k1), LVNumber(k2), LVNumber(1), LVNumber(2) >>,
          << iABx("LOADK", 0, 0), iABx("CLOSURE", 1, 0), iABC("MOVE", 0, 0, 0),
             iABx("CLOSURE", 2, 1), iABC("NEWTABLE", 3, 0, 0),
             iABx("LOADK", 4, 2), iABC("SETTABLE", 3, 4, K(3)), iABx("LOADK", 4, 2),
             iABC("ADD", 0, 0, K(1)),
             iABC("TFORLOOP", 2, 0, 2), iAsBx("JMP", 0, 0 - 3),
             iABC("MOVE", 7, 1, 0), iABx("LOADK", 8, 0), iABC("CALL", 7, 2, 2),
             iABC("MOVE", 7, 0, 0),
             iABC("RETURN", 0, 1, 0) >>,
          << 2, 3 >>)

\* local x, y = k1, k1; local function f() return x end; local function g() return y end
\* and a jump to the next instruction with the given A
JumpCloseMain(k1, A) ==
    Proto(0, 0, 4, << LVNumber(k1) >>,
          << iABx("LOADK", 0, 0), iABx("LOADK", 1, 0),
             iABx("CLOSURE", 2, 0), iABC("MOVE", 0, 0, 0),
             iABx("CLOSURE", 3, 0), iABC("MOVE", 0, 1, 0),
             iAsBx("JMP", A, 0), iABC("RETURN", 0, 1, 0) >>,
          << 2 >>)

\* local a, b = nil, k1; if b then ... end; local c = b and ..., with the given C
TestMain(k1, C) ==
    Proto(0, 0, 4, << LVNumber(k1) >>,
          << iABC("LOADNIL", 0, 0, 0), iABx("LOADK", 1, 0),
             iABC("TEST", 1, 0, C), iABx("LOADK", 2, 0),
             iABC("TESTSET", 3, 1, C), iABx("LOADK", 2, 0),
             iABC("RETURN", 0, 1, 0) >>,
          << >>)

\* for i = init, limit, step do end
ForUpMain(init, limit, step) ==
    Proto(0, 0, 4, << LVNumber(init), LVNumber(limit), LVNumber(step) >>,
          << iABx("LOADK", 0, 0), iABx("LOADK", 1, 1), iABx("LOADK", 2, 2),
             iAsBx("FORPREP", 0, 0), iAsBx("FORLOOP", 0, 0 - 1),
             iABC("RETURN", 0, 1, 0) >>,
          << >>)
\* for i = init, limit, -step do end
ForDownMain(init, limit, step) ==
    Proto(0, 0, 4, << LVNumber(init), LVNumber(limit), LVNumber(step) >>,
          << iABx("LOADK", 0, 0), iABx("LOADK", 1, 1), iABx("LOADK", 2, 2),
             iABC("UNM", 2, 2, 0),
             iAsBx("FORPREP", 0, 0), iAsBx("FORLOOP", 0, 0 - 1),
             iABC("RETURN", 0, 1, 0) >>,
          << >>)

\* local a = (B ~= 0), with the skip of the next instruction when C ~= 0
LoadBoolMain(k1, B, C) ==
    Proto(0, 0, 2, << LVNumber(k1) >>,
          << iABC("LOADBOOL", 0, B, C), iABx("LOADK", 1, 0), iABx("LOADK", 1, 0),
             iABC("RETURN", 0, 1, 0) >>,
          << >>)

\* local x, y = K[left], K[right]; local z = x .. y, the constants being a
\* number, the string "a" and nil
ConcatMain(k1, left, right) ==
    Proto(0, 0, 3, << LVNumber(k1), LVString("a"), LVNil >>,
          << iABx("LOADK", 0, left), iABx("LOADK", 1, right),
             iABC("CONCAT", 2, 0, 1), iABC("RETURN", 0, 1, 0) >>,
          << >>)

\* function() return "a" end
ReturnConstBody ==
    Proto(0, 0, 2, << LVString("a") >>,
          << iABx("LOADK", 0, 0), iABC("RETURN", 0, 2, 0), iABC("RETURN", 0, 1, 0) >>, << >>)
\* local x = f(); local y = "a" (or y = x); if x == y ...; if x == 1 ...
EqMain(sameObject, A) ==
    Proto(0, 0, 4, << LVString("a"), LVNumber(1) >>,
          << iABx("CLOSURE", 0, 0), iABC("CALL", 0, 1, 2),
             IF sameObject THEN iABC("MOVE", 1, 0, 0) ELSE iABx("LOADK", 1, 0),
             iABC("EQ", A, 0, 1), iABx("LOADK", 2, 1), iABx("LOADK", 2, 1),
             iABC("EQ", A, 0, 2), iABx("LOADK", 3, 1),
             iABC("RETURN", 0, 1, 0) >>,
          << 2 >>)

\* local t, mt = {}, {}; mt.__add = <proto 0>; setmetatable(t, mt)
\* local r = k1 + t
AddRightMain(k1) ==
    Proto(0, 0, 6, << LVString("__add"), LVString("setmetatable"), LVNumber(k1) >>,
          << iABC("NEWTABLE", 0, 0, 0), iABC("NEWTABLE", 1, 0, 0), iABx("CLOSURE", 2, 0),
             iABx("LOADK", 3, 0), iABC("SETTABLE", 1, 3, 2),
             iABx("GETGLOBAL", 3, 1), iABC("MOVE", 4, 0, 0), iABC("MOVE", 5, 1, 0),
             iABC("CALL", 3, 3, 1),
             iABx("LOADK", 3, 2), iABC("ADD", 4, 3, 0),
             iABC("RETURN", 0, 1, 0) >>,
          << 2 >>)

\* function() do return end coroutine.yield() end
ReturnThenYieldBody ==
    Proto(0, 0, 2, << LVString("coroutine"), LVString("yield") >>,
          << iABC("RETURN", 0, 1, 0),
             iABx("GETGLOBAL", 0, 0), iABC("GETTABLE", 0, 0, K(1)), iABC("CALL", 0, 1, 1),
             iABC("RETURN", 0, 1, 0) >>,
          << >>)
\* local co = coroutine.create(<proto 0>); coroutine.resume(co)
\* then co(co), or coroutine.resume(co) again
CallDeadMain(direct) ==
    Proto(0, 0, 4, << LVString("coroutine"), LVString("create"), LVString("resume") >>,
          << iABx("GETGLOBAL", 0, 0), iABC("GETTABLE", 1, 0, K(1)), iABx("CLOSURE", 2, 0),
             iABC("CALL", 1, 2, 2),
             iABC("GETTABLE", 2, 0, K(2)), iABC("MOVE", 3, 1, 0), iABC("CALL", 2, 2, 1),
             IF direct THEN iABC("MOVE", 2, 1, 0) ELSE iABC("GETTABLE", 2, 0, K(2)),
             iABC("MOVE", 3, 1, 0), iABC("CALL", 2, 2, 1),
             iABC("RETURN", 0, 1, 0) >>,
          << 2 >>)

\* function() local f, x = g, k1; g = nil; if f then f() end; return x end
RecurseBody(k1) ==
    Proto(0, 0, 3, << LVString("g"), LVNumber(k1) >>,
          << iABx("GETGLOBAL", 0, 0), iABx("LOADK", 1, 1), iABx("SETGLOBAL", 2, 0),
             iABC("TEST", 0, 0, 1), iABC("CALL", 0, 1, 1),
             iABC("RETURN", 1, 2, 0), iABC("RETURN", 0, 1, 0) >>,
          << >>)
\* g = <proto 0>; local a, b = g, own; local r = g()
RecurseMain(own) ==
    Proto(0, 0, 4, << LVString("g"), LVNumber(own) >>,
          << iABx("CLOSURE", 0, 0), iABx("SETGLOBAL", 0, 0), iABx("LOADK", 1, 1),
             iABx("LOADK", 2, 1), iABC("MOVE", 3, 0, 0), iABC("CALL", 3, 1, 2),
             iABC("RETURN", 0, 1, 0) >>,
          << 2 >>)

\* local v = coroutine.create(function() return end) (or v = k1)
\* local n = not v; local w = v and ... (TESTSET), C the sense of the test
TruthyMain(k1, thread, C) ==
    Proto(0, 0, 4, << LVString("coroutine"), LVString("create"), LVNumber(k1) >>,
          << iABx("GETGLOBAL", 0, 0),
             IF thread THEN iABC("GETTABLE", 0, 0, K(1)) ELSE iABx("LOADK", 0, 2),
             iABx("CLOSURE", 1, 0),
             IF thread THEN iABC("CALL", 0, 2, 2) ELSE iABC("MOVE", 1, 0, 0),
             iABC("NOT", 1, 0, 0), iABC("TESTSET", 2, 0, C), iABx("LOADK", 3, 2),
             iABC("RETURN", 0, 1, 0) >>,
          << 2 >>)

Chunk(name, k1, k2, protos) == [name |-> name, k1 |-> k1, k2 |-> k2, protos |-> protos]
Vals == 1..MaxVal
Chunks ==
    UNION { { Chunk("yieldDirect", k1, k2, << Driver(k1, k2, FALSE), YieldBody >>),
              Chunk("yieldNested", k1, k2, << Driver(k1, k2, TRUE), NestedBody(k2), YieldingG(k1) >>),
              Chunk("errorInBody", k1, k2, << Driver(k1, k2, FALSE), ErrorBody >>),
              Chunk("resumeSelf", k1, k2, << Driver(k1, k2, FALSE), SelfBody >>),
              Chunk("returnOne", k1, k2, << Driver(k1, k2, FALSE), ReturnOneBody(k1) >>),
              Chunk("returnTwo", k1, k2, << Driver(k1, k2, FALSE), ReturnTwoBody(k1, k2) >>),
              Chunk("createHost", k1, k2, << CreateHostMain >>),
              Chunk("sharing", k1, k2, << SharingMain(k1, k2), SetterProto, GetterProto >>),
              Chunk("closedSharing", k1, k2,
                    << ClosedSharingMain(k2), MakerProto(k1), SetterProto, GetterProto >>),
              Chunk("closeScope", k1, k2, << CloseScopeMain(k1, k2), GetterProto >>),
              Chunk("tailCall", k1, k2, << TailCallMain(k1, k2), CallerProto, GetterProto >>),
              Chunk("errorOpenUpValue", k1, k2, << ErrorOpenMain(k1), GetterProto >>),
              Chunk("tailChain", k1, k2,
                    << TailChainMain, ReturnOneBody(k1), TailCaller("c"), TailCaller("b") >>),
              Chunk("yieldThree", k1, k2, << YieldThreeMain, YieldThreeBody(k1, k2) >>),
              Chunk("returnThree", k1, k2, << ReturnThreeMain, ReturnThreeBody(k1, k2) >>),
              Chunk("invalidOpcode", k1, k2, << InvalidOpcodeMain(k1) >>),
              Chunk("tableLength", k1, k2, << TableLengthMain(k1, k2) >>),
              Chunk("nilWrite", k1, k2, << NilWriteMain(k1, k2) >>),
              Chunk("keyIdentity", k1, k2, << KeyIdentityMain(k1, k2) >>),
              Chunk("nextTraversal", k1, k2,
                    << IF k2 = 1 THEN NextTraversalMain(k1, LVString("a"), LVString("b"))
                       ELSE NextTraversalMain(k1, LVNumber(1), StringOne) >>),
              Chunk("nextUnknown", k1, k2,
                    << IF k2 = 1 THEN NextUnknownMain(k1, LVString("a"), LVString("b"))
                       ELSE NextUnknownMain(k1, LVNumber(1), StringOne) >>),
              Chunk("callMeta", k1, k2,
                    << CallMetaMain(k1, IF k2 = 1 THEN "__call" ELSE "a"), CallBody >>),
              Chunk("callThread", k1, k2, << CallThreadMain(k1), CallBody >>),
              Chunk("metaAdd", k1, k2,
                    << MetaAddMain(k1), IF k2 = 1 THEN ReturnPairBody(k1) ELSE CallBody >>),
              Chunk("protect", k1, k2, << ProtectMain(k1, IF k2 = 1 THEN "__metatable" ELSE "a") >>),
              Chunk("callArgs", k1, k2, << CallArgsMain(k1, 2 * k2 - 1), CallBody >>),
              Chunk("printCall", k1, k2, << PrintCallMain(k1, k2 - 1) >>),
              Chunk("callNothing", k1, k2, << CallNothingMain(k1, k2 + 1), ReturnNothingBody >>),
              Chunk("jumpAlias", k1, k2,
                    << JumpAliasMain(k1, k2), IF k2 = 1 THEN GetterProto ELSE SetterProto,
                       IterBody >>),
              Chunk("genericFor", k1, k2, << GenericForMain(k2), IterBody >>),
              Chunk("pairsFor", k1, k2,
                    << IF k2 = 1 THEN PairsForMain(k1, LVString("a"), LVString("b"))
                       ELSE PairsForMain(k1, LVNumber(1), StringOne) >>),
              Chunk("jumpClose", k1, k2, << JumpCloseMain(k1, k2), GetterProto >>),
              Chunk("test", k1, k2, << TestMain(k1, k2 - 1) >>),
              Chunk("forUp", k1, k2, << ForUpMain(k2, k1 + 1, k2) >>),
              Chunk("forDown", k1, k2, << ForDownMain(2 * k1 - 1, 2, k2) >>),
              Chunk("loadBool", k1, k2, << LoadBoolMain(k1, k1 - 1, k2 - 1) >>),
              Chunk("concat", k1, k2, << ConcatMain(k1, k1 - 1, k2 - 1) >>),
              Chunk("eq", k1, k2, << EqMain(k1 # 1, k2 - 1), ReturnConstBody >>),
              Chunk("addRight", k1, k2,
                    << AddRightMain(k1), IF k2 = 1 THEN ReturnPairBody(k1) ELSE CallBody >>),
              Chunk("callDead", k1, k2,
                    << CallDeadMain(k2 # 2),
                       IF k1 = 1 THEN ReturnNothingBody ELSE ReturnThenYieldBody >>),
              Chunk("recurse", k1, k2, << RecurseMain(k2 + 2), RecurseBody(k1) >>),
              Chunk("truthy", k1, k2, << TruthyMain(k1, k1 = 1, k2 - 1), ReturnNothingBody >>),
              Chunk("selectCount", k1, k2, << SelectMain(k1, k2, [bytes |-> << 35 >>]) >>),
              Chunk("select", k1, k2,
                    << SelectMain(k1, k2, LVNumber((k1 - 1) + 2 * (k2 - 1))) >>) }
            : k1 \in Vals, k2 \in Vals }

(***************************************************************************)
(* State.                                                                  *)
(***************************************************************************)
VARIABLES
    revision,     \* "runCoroutine" or "runClosure": the executor that runs
    chunk,        \* the chunk: the prototypes encoded in data and, once loaded,
                  \* protos (LuaVM.mainProto and its nested prototypes)
    coroutines,   \* the LVCoroutine objects; under runClosure, the local frame
                  \* state (pc, top, regs, openUpValues, args) of each activation
    closures,     \* the LVClosure objects
    upvals,       \* the LVUpValue objects
    tables,       \* the LVTable objects; tables[1] is LuaVM.globals
    stack,        \* the native call stack: the activations of the executor
    completion,   \* what the top activation has just completed with, if anything
    history,      \* history variable: what has happened so far
    data,         \* the byte buffer the VM is constructed from (LuaVM.data)
    vm            \* the LuaVM object: its state and the fields of the header

vars ==
    << revision, chunk, coroutines, closures, upvals, tables, stack, completion, history,
       data, vm >>

Revisions == {"runCoroutine", "runClosure"}

(***************************************************************************)
(* LVTable.                                                                *)
(***************************************************************************)
RECURSIVE Digits(_)
Digits(n) ==
    IF n < 10 THEN <<"0", "1", "2", "3", "4", "5", "6", "7", "8", "9">>[n + 1]
    ELSE Digits(n \div 10) \o Digits(n % 10)
\* String(n) for an integer n
NumberToString(n) == IF n < 0 THEN "-" \o Digits(0 - n) ELSE Digits(n)

\* The property key JS makes of the value key for this.hash[key]
ToPropertyKey(key) ==
    IF ~IsJS(key) THEN "undefined"
    ELSE CASE key.js = "string" -> key.str
           [] key.js = "number" -> NumberToString(key.num)
           [] key.js = "boolean" -> IF key.bool THEN "true" ELSE "false"
           [] key.js = "null" -> "null"
           [] key.js = "function" -> "function " \o key.host
PropertyKey(key) == ToPropertyKey(unwrap(key))

\* typeof key === "number" && key >= 1 && Number.isInteger(key), of unwrap(key)
IsArrayKey(key) == IsJS(unwrap(key)) /\ unwrap(key).js = "number" /\ unwrap(key).num >= 1

\* An entry of LVTable.keyOrder: the key after key = unwrap(key)
OrderKey(key) == unwrap(key)

\* LVTable.rawGet(context, key) on the table object t
rawGet(t, key) ==
    IF IsArrayKey(key)
    THEN IF unwrap(key).num \in DOMAIN t.array
         THEN Coalesce(t.array[unwrap(key).num], LVNil) ELSE LVNil
    ELSE IF PropertyKey(key) \in DOMAIN t.hash
         THEN Coalesce(t.hash[PropertyKey(key)], LVNil) ELSE LVNil

\* LVTable.rawSet(context, key, value) on the table object t
rawSet(t, key, value) ==
    IF IsArrayKey(key)
    THEN [t EXCEPT
            !.keyOrder = IF unwrap(key).num \in DOMAIN t.array THEN @ ELSE Append(@, OrderKey(key)),
            !.array = [i \in DOMAIN t.array \cup {unwrap(key).num} |->
                          IF i = unwrap(key).num THEN value ELSE t.array[i]]]
    ELSE [t EXCEPT
            !.keyOrder = IF PropertyKey(key) \in DOMAIN t.hash THEN @ ELSE Append(@, OrderKey(key)),
            !.hash = [k \in DOMAIN t.hash \cup {PropertyKey(key)} |->
                          IF k = PropertyKey(key) THEN value ELSE t.hash[k]]]

\* LVTable.keys(): the keys next and pairs go through, in this order
keys(t) == t.keyOrder

RECURSIVE LenFrom(_, _)
\* The loop of LVTable.len from i on: the last i with array[i] !== undefined
LenFrom(t, i) ==
    IF i \in DOMAIN t.array /\ t.array[i] # Undefined THEN LenFrom(t, i + 1) ELSE i - 1
\* LVTable.len(context)
len(t) == LVNumber(LenFrom(t, 1))

\* new LVTable()
NewLVTable == [array |-> [i \in {} |-> LVNil], hash |-> [k \in {} |-> LVNil],
               keyOrder |-> << >>, metatable |-> JSNull]

RECURSIVE RawSetAll(_, _)
\* rawSet(null, name, new LVFunction(...)) for each host function of entries in turn
RawSetAll(t, entries) ==
    IF entries = << >> THEN t
    ELSE RawSetAll(rawSet(t, LVString(entries[1][1]), entries[1][2]), Tail(entries))

\* The coroutine library: yield, resume, create.
CoroutineLib ==
    RawSetAll(NewLVTable,
              << <<"yield", LVFunction("yield")>>, <<"resume", LVFunction("resume")>>,
                 <<"create", LVFunction("create")>> >>)

\* The host functions LuaVM's constructor stores in globals after the libraries.
HostGlobals ==
    << <<"print", LVFunction("print")>>, <<"next", LVFunction("next")>>,
       <<"select", LVFunction("select")>>, <<"pairs", LVFunction("pairs")>>,
       <<"setmetatable", LVFunction("setmetatable")>>,
       <<"getmetatable", LVFunction("getmetatable")>>,
       <<"tonumber", LVFunction("tonumber")>>, <<"tostring", LVFunction("tostring")>> >>

\* The tables after LuaVM's constructor: globals and the coroutine library
\* (the math and string libraries, which no chunk here reads, are left out).
InitTables(rev) ==
    IF rev = "runCoroutine"
    THEN << RawSetAll(NewLVTable, << <<"coroutine", LVTable(2)>> >> \o HostGlobals), CoroutineLib >>
    ELSE << RawSetAll(NewLVTable, HostGlobals) >>

(***************************************************************************)
(* Errors thrown by the interpreter.                                       *)
(***************************************************************************)
LuaError(message) == [name |-> "LuaError", message |-> message]
TypeError(message) == [name |-> "TypeError", message |-> message]
ReferenceError(message) == [name |-> "ReferenceError", message |-> message]
LuaCFormatError(message) == [name |-> "LuaCFormatError", message |-> message]

(***************************************************************************)
(* LVClosure, LVCoroutine, LVUpValue.                                      *)
(***************************************************************************)
\* new LVClosure(proto): upvalues is new Array(proto.upValueCount), all holes (0)
NewLVClosure(p) == [proto |-> p, upvalues |-> [i \in 1..chunk.protos[p].upValueCount |-> 0]]

ProtoOf(c) == chunk.protos[closures[c.closure].proto]

Nils(n) == [i \in 1..n |-> LVNil]

\* args[i] of the constructor's second argument: an array, or one value
\* (then args[i] is a missing property of an LV object), or undefined
ArgsArray(items) == [array |-> TRUE, items |-> items]
ArgsIndex(args, i) == IF "array" \in DOMAIN args THEN ArrGet(args.items, i) ELSE Undefined

RECURSIVE InitParams(_, _, _, _)
\* for (i = from; i < paramCount; i ++) regs[i] = args[i] ?? dflt
\* (dflt is new LVNil() in LVCoroutine, and absent, i.e. undefined, in runClosure)
InitParams(regs, args, i, n) ==
    IF i >= n THEN regs
    ELSE InitParams(ArrSet(regs, i, ArgsIndex(args, i)), args, i + 1, n)

\* new LVCoroutine(closure, args), closure an LVClosure:
\* the object, or the TypeError of args[0] when args is undefined
NewLVCoroutine(clo, args) ==
    LET proto == chunk.protos[closures[clo].proto]
        raw == InitParams(Nils(proto.maxStackSize), args, 0, proto.paramCount)
    IN  IF args = Undefined /\ proto.paramCount > 0
        THEN [ok |-> FALSE, error |-> TypeError("Cannot read properties of undefined")]
        ELSE [ok |-> TRUE,
              object |-> [ closure |-> clo, status |-> "suspended",
                           args |-> IF args = Undefined THEN ArgsArray(<< >>) ELSE args,
                           pc |-> 0, top |-> 0,
                           regs |-> [i \in DOMAIN raw |-> Coalesce(raw[i], LVNil)],
                           openUpValues |-> << >> ]]

\* The frame state at the start of runClosure(closure, ...args)
NewFrame(clo, args) ==
    LET proto == chunk.protos[closures[clo].proto]
    IN  [ closure |-> clo, status |-> "none", args |-> ArgsArray(args),
          pc |-> 0, top |-> 0,
          regs |-> InitParams(Nils(proto.maxStackSize), ArgsArray(args), 0, proto.paramCount),
          openUpValues |-> << >> ]

\* new LVUpValue(parentRegs, index): parentRegs is the regs array of coroutines[frame]
NewLVUpValue(frame, index) == [isOpen |-> TRUE, parentRegs |-> frame, index |-> index, value |-> Undefined]

\* The heap: the objects an operation reads and updates.
Heap == [coroutines |-> coroutines, closures |-> closures, upvals |-> upvals, tables |-> tables]

\* LVUpValue.get()
UpValueGet(h, u) ==
    IF h.upvals[u].isOpen
    THEN ArrGet(h.coroutines[h.upvals[u].parentRegs].regs, h.upvals[u].index)
    ELSE h.upvals[u].value

\* LVUpValue.set(value)
UpValueSet(h, u, value) ==
    IF h.upvals[u].isOpen
    THEN [h EXCEPT !.coroutines[h.upvals[u].parentRegs].regs = ArrSet(@, h.upvals[u].index, value)]
    ELSE [h EXCEPT !.upvals[u].value = value]

\* LVUpValue.close()
UpValueClose(h, u) ==
    IF h.upvals[u].isOpen
    THEN [h EXCEPT !.upvals[u] =
            [isOpen |-> FALSE, parentRegs |-> 0, index |-> -1,
             value |-> ArrGet(h.coroutines[h.upvals[u].parentRegs].regs, h.upvals[u].index)]]
    ELSE h

\* value.truthy(): LVBase answers false and LVNumber, LVString, LVTable,
\* LVFunction and LVClosure true; LVBoolean its value; LVCoroutine inherits false
truthy(value) ==
    CASE value.type \in {"number", "string", "table", "function"} -> TRUE
      [] value.type = "boolean" -> value.bool
      [] OTHER -> FALSE

\* An LVTuple object held where a value is expected, as setReg(A, result)
\* leaves it in a register: it has no type of its own
StoredTuple(values) == [type |-> "LVTuple", values |-> values]
\* The object a call returned, as a value
Raw(result) == IF result.tuple THEN StoredTuple(result.values) ELSE result.value
\* first(value)
first(value) == IF value.type = "LVTuple" THEN ArrGet(value.values, 0) ELSE value

\* setReg(i, v) on the frame c
setReg(c, i, v) ==
    [c EXCEPT !.regs = ArrSet(@, i, v), !.top = IF i >= c.top THEN i + 1 ELSE c.top]

\* RK(regs, proto, x)
RK(c, proto, x) ==
    IF x >= 256 THEN ArrGet(proto.constants, x % 256) ELSE ArrGet(c.regs, x)

(***************************************************************************)
(* Bytes.  A buffer is a sequence of bytes 0..255; a JS string is modelled  *)
(* by the sequence of its code units.  The bytes of an LVString are held   *)
(* as a TLA+ string, one token per byte: the character for a..z and 0..9, *)
(* <n> for any other byte n.                                               *)
(***************************************************************************)
Letters ==
    << "a", "b", "c", "d", "e", "f", "g", "h", "i", "j", "k", "l", "m",
       "n", "o", "p", "q", "r", "s", "t", "u", "v", "w", "x", "y", "z" >>
Chr(b) ==
    IF b >= 97 /\ b <= 122 THEN Letters[b - 96]
    ELSE IF b >= 48 /\ b <= 57 THEN NumberToString(b - 48)
    ELSE IF b = 95 THEN "_"
    ELSE "<" \o NumberToString(b) \o ">"
Ord(token) == CHOOSE b \in 0..255 : Chr(b) = token
RECURSIVE StrOfBytes(_)
StrOfBytes(bytes) == IF bytes = << >> THEN "" ELSE Chr(bytes[1]) \o StrOfBytes(Tail(bytes))

\* The tokens of the strings the chunks below have as constants
Spelling ==
    [ coroutine |-> << "c", "o", "r", "o", "u", "t", "i", "n", "e" >>,
      create |-> << "c", "r", "e", "a", "t", "e" >>,
      resume |-> << "r", "e", "s", "u", "m", "e" >>,
      yield |-> << "y", "i", "e", "l", "d" >>,
      print |-> << "p", "r", "i", "n", "t" >>,
      co |-> << "c", "o" >>,
      fb |-> << "f", "b" >>,
      g |-> << "g" >>,
      h |-> << "h" >>,
      a |-> << "a" >>,
      b |-> << "b" >>,
      c |-> << "c" >>,
      next |-> << "n", "e", "x", "t" >>,
      setmetatable |-> << "s", "e", "t", "m", "e", "t", "a", "t", "a", "b", "l", "e" >>,
      getmetatable |-> << "g", "e", "t", "m", "e", "t", "a", "t", "a", "b", "l", "e" >>,
      __call |-> << "_", "_", "c", "a", "l", "l" >>,
      __add |-> << "_", "_", "a", "d", "d" >>,
      select |-> << "s", "e", "l", "e", "c", "t" >>,
      pairs |-> << "p", "a", "i", "r", "s" >>,
      __metatable |-> << "_", "_", "m", "e", "t", "a", "t", "a", "b", "l", "e" >> ]
BytesOfStr(s) == [i \in DOMAIN Spelling[s] |-> Ord(Spelling[s][i])]

RECURSIVE Flatten(_)
Flatten(seqs) == IF seqs = << >> THEN << >> ELSE seqs[1] \o Flatten(Tail(seqs))
Reverse(s) == [i \in 1..Len(s) |-> s[Len(s) + 1 - i]]
Pow2(n) == 2 ^ n

\* new TextEncoder().encode(str), str given by its code units (all below 2048)
RECURSIVE TextEncode(_)
TextEncode(units) ==
    IF units = << >> THEN << >>
    ELSE (IF units[1] < 128 THEN << units[1] >>
          ELSE << 192 + (units[1] \div 64), 128 + (units[1] % 64) >>) \o TextEncode(Tail(units))

\* new LVString(bytes): a JS string is encoded as UTF-8, a Uint8Array is kept,
\* anything else (null) is refused
NewLVString(bytes) ==
    CASE bytes.kind = "string" -> [ok |-> TRUE, value |-> LVString(StrOfBytes(TextEncode(bytes.units)))]
      [] bytes.kind = "bytes" -> [ok |-> TRUE, value |-> LVString(StrOfBytes(bytes.bytes))]
      [] OTHER ->
            [ok |-> FALSE,
             error |-> LuaCFormatError("invalid string literal; could not convert to bytestring")]

(***************************************************************************)
(* The binary reader.  A read returns Ok(pos, value), pos the position     *)
(* after it, or Fail(message) when it throws LuaCFormatError.              *)
(***************************************************************************)
Ok(pos, value) == [ok |-> TRUE, pos |-> pos, value |-> value]
Fail(message) == [ok |-> FALSE, error |-> LuaCFormatError(message)]

\* What follows a read r when it did not throw
Bind(r, Following(_)) == IF r.ok THEN Following(r) ELSE r

LUA_SIGNATURE == << 27, 76, 117, 97 >>

\* sliceBytes(pos, pos + amount): a new Uint8Array(amount), zero where data ends
readBytes(buf, pos, amount) ==
    [i \in 1..amount |-> IF pos + i <= Len(buf) THEN buf[pos + i] ELSE 0]
readByte(buf, pos) == readBytes(buf, pos, 1)[1]

RECURSIVE BigEndian(_)
\* The unsigned integer of bytes, most significant first
BigEndian(bytes) ==
    IF bytes = << >> THEN 0
    ELSE BigEndian(SubSeq(bytes, 1, Len(bytes) - 1)) * 256 + bytes[Len(bytes)]
InOrder(bytes, isLittleEndian) == IF isLittleEndian THEN Reverse(bytes) ELSE bytes
\* DataView.getUint8 / getUint16 / getUint32 / getBigUint64
getUint(bytes, isLittleEndian) == BigEndian(InOrder(bytes, isLittleEndian))
\* DataView.getInt8 / getInt16 / getInt32 / getBigInt64: two's complement
getInt(bytes, isLittleEndian) ==
    LET b == InOrder(bytes, isLittleEndian)
    IN  IF b[1] < 128 THEN BigEndian(b)
        ELSE 0 - (BigEndian([i \in DOMAIN b |-> 255 - b[i]]) + 1)
\* DataView.getFloat32 / getFloat64: the number, when it is a non-negative
\* integer below 2^20; any other bit pattern is kept as it is
getFloat(bytes, isLittleEndian) ==
    LET b == InOrder(bytes, isLittleEndian)
        double == Len(b) = 8
        e == IF double THEN (b[1] % 128) * 16 + (b[2] \div 16) - 1023
             ELSE (b[1] % 128) * 2 + (b[2] \div 128) - 127
        m == IF double THEN (b[2] % 16) * 65536 + b[3] * 256 + b[4]
             ELSE ((b[2] % 128) * 65536 + b[3] * 256 + b[4]) \div 8
        low == IF double THEN BigEndian(SubSeq(b, 5, 8)) ELSE b[4] % 8
    IN  IF \A i \in DOMAIN b : b[i] = 0 THEN 0
        ELSE IF b[1] < 128 /\ low = 0 /\ e >= 0 /\ e < 20 /\ m % Pow2(20 - e) = 0
        THEN (Pow2(20) + m) \div Pow2(20 - e)
        ELSE [bits |-> b]

\* readLuaInt(), readLuaUInt(), readLuaSizeT() with the declared size
readSized(buf, pos, isLittleEndian, size, signed) ==
    IF size \in {1, 2, 4, 8}
    THEN Ok(pos + size,
            IF signed THEN getInt(readBytes(buf, pos, size), isLittleEndian)
            ELSE getUint(readBytes(buf, pos, size), isLittleEndian))
    ELSE Fail("unsupported lua number size")
readLuaInt(buf, pos, h) == readSized(buf, pos, h.isLittleEndian, h.intSize, TRUE)
readLuaUInt(buf, pos, h) == readSized(buf, pos, h.isLittleEndian, h.intSize, FALSE)
readLuaSizeT(buf, pos, h) == readSized(buf, pos, h.isLittleEndian, h.sizeTSize, FALSE)

readLuaNumber(buf, pos, h) ==
    IF h.luaNumIsInt # 0
    THEN readSized(buf, pos, h.isLittleEndian, h.luaNumSize, TRUE)
    ELSE IF h.luaNumSize \in {4, 8}
    THEN Ok(pos + h.luaNumSize, getFloat(readBytes(buf, pos, h.luaNumSize), h.isLittleEndian))
    ELSE Fail("unsupported lua number size")

\* readLuaString(): null for the length 0, or String.fromCharCode(...bytes)
readLuaString(buf, pos, h) ==
    Bind(readLuaSizeT(buf, pos, h),
         LAMBDA size :
           IF size.value = 0 THEN Ok(size.pos, [kind |-> "null"])
           ELSE Ok(size.pos + size.value,
                   [kind |-> "string", units |-> readBytes(buf, size.pos, size.value - 1)]))

RECURSIVE ReadInsts(_, _, _, _)
\* The loop of readPrototype over instCount instructions
ReadInsts(buf, pos, h, n) ==
    IF n = 0 THEN Ok(pos, << >>)
    ELSE IF h.instSize \notin {1, 2, 4} THEN Fail("unsupported instruction size")
    ELSE Bind(ReadInsts(buf, pos + h.instSize, h, n - 1),
              LAMBDA rest :
                Ok(rest.pos,
                   << getUint(readBytes(buf, pos, h.instSize), h.isLittleEndian) >> \o rest.value))

\* new LVString(str) for the string read up to pos
ConstantString(pos, made) ==
    IF made.ok THEN Ok(pos, LVStringAt(made.value.str, pos))
    ELSE [ok |-> FALSE, error |-> made.error]

\* One constant of the pool: its tag and what follows it
ReadConstant(buf, pos, h) ==
    LET constType == readByte(buf, pos)
    IN  CASE constType = 0 -> Ok(pos + 1, LVNil)
          [] constType = 1 -> Ok(pos + 2, LVBoolean(readByte(buf, pos + 1) > 0))
          [] constType = 3 ->
                Bind(readLuaNumber(buf, pos + 1, h), LAMBDA n : Ok(n.pos, LVNumber(n.value)))
          [] constType = 4 ->
                Bind(readLuaString(buf, pos + 1, h),
                     LAMBDA s : ConstantString(s.pos, NewLVString(s.value)))
          [] OTHER -> Fail("unsupported constant type")

RECURSIVE ReadConstants(_, _, _, _)
\* The loop of readPrototype over constCount constants
ReadConstants(buf, pos, h, n) ==
    IF n = 0 THEN Ok(pos, << >>)
    ELSE Bind(ReadConstant(buf, pos, h),
              LAMBDA one :
                Bind(ReadConstants(buf, one.pos, h, n - 1),
                     LAMBDA rest : Ok(rest.pos, << one.value >> \o rest.value)))

RECURSIVE ReadUInts(_, _, _, _)
\* n times readLuaUInt(): the source line numbers
ReadUInts(buf, pos, h, n) ==
    IF n = 0 THEN Ok(pos, << >>)
    ELSE Bind(readLuaUInt(buf, pos, h),
              LAMBDA one :
                Bind(ReadUInts(buf, one.pos, h, n - 1),
                     LAMBDA rest : Ok(rest.pos, << one.value >> \o rest.value)))

RECURSIVE ReadLocals(_, _, _, _)
\* The loop of readPrototype over localCount entries (name, startPc, endPc)
ReadLocals(buf, pos, h, n) ==
    IF n = 0 THEN Ok(pos, << >>)
    ELSE Bind(readLuaString(buf, pos, h),
              LAMBDA name :
                Bind(ReadUInts(buf, name.pos, h, 2),
                     LAMBDA pcs :
                       Bind(ReadLocals(buf, pcs.pos, h, n - 1),
                            LAMBDA rest : Ok(rest.pos, << name.value >> \o rest.value))))

RECURSIVE ReadStrings(_, _, _, _)
\* n times readLuaString(): the up-value names
ReadStrings(buf, pos, h, n) ==
    IF n = 0 THEN Ok(pos, << >>)
    ELSE Bind(readLuaString(buf, pos, h),
              LAMBDA one :
                Bind(ReadStrings(buf, one.pos, h, n - 1),
                     LAMBDA rest : Ok(rest.pos, << one.value >> \o rest.value)))

RECURSIVE readPrototype(_, _, _, _)
RECURSIVE ReadNested(_, _, _, _, _)
\* The loop of readPrototype over nestedProtoCount prototypes, the first of
\* which gets the index at: their indices and the prototypes of their trees
ReadNested(buf, pos, h, n, at) ==
    IF n = 0 THEN Ok(pos, [indices |-> << >>, protos |-> << >>])
    ELSE Bind(readPrototype(buf, pos, h, at),
              LAMBDA one :
                Bind(ReadNested(buf, one.pos, h, n - 1, at + Len(one.value)),
                     LAMBDA rest :
                       Ok(rest.pos, [indices |-> << at >> \o rest.value.indices,
                                     protos |-> one.value \o rest.value.protos])))

\* The prototype read: the four bytes after lastLineDefined, the instructions,
\* the constants and the indices of the nested prototypes, followed by these
PrototypeRead(pos, bytes, insts, constants, nestedProtos) ==
    Ok(pos,
       << [ paramCount |-> bytes[2], upValueCount |-> bytes[1],
            isVarArg |-> bytes[3] > 0, maxStackSize |-> bytes[4],
            constants |-> constants, insts |-> insts,
            nestedProtos |-> nestedProtos.indices ] >>
       \o nestedProtos.protos)

\* readPrototype() at pos: the prototype, which gets the index at, followed
\* by the prototypes nested in it, nestedProtos holding their indices
readPrototype(buf, pos, h, at) ==
    Bind(readLuaString(buf, pos, h), LAMBDA fileName :
    Bind(readLuaInt(buf, fileName.pos, h), LAMBDA lineDefined :
    Bind(readLuaInt(buf, lineDefined.pos, h), LAMBDA lastLineDefined :
    Bind(readLuaUInt(buf, lastLineDefined.pos + 4, h), LAMBDA instCount :
    Bind(ReadInsts(buf, instCount.pos, h, instCount.value), LAMBDA insts :
    Bind(readLuaUInt(buf, insts.pos, h), LAMBDA constCount :
    Bind(ReadConstants(buf, constCount.pos, h, constCount.value), LAMBDA constants :
    Bind(readLuaUInt(buf, constants.pos, h), LAMBDA nestedProtoCount :
    Bind(ReadNested(buf, nestedProtoCount.pos, h, nestedProtoCount.value, at + 1),
         LAMBDA nestedProtos :
    Bind(readLuaUInt(buf, nestedProtos.pos, h), LAMBDA lineInfoCount :
    Bind(ReadUInts(buf, lineInfoCount.pos, h, lineInfoCount.value), LAMBDA lineInfo :
    Bind(readLuaUInt(buf, lineInfo.pos, h), LAMBDA localCount :
    Bind(ReadLocals(buf, localCount.pos, h, localCount.value), LAMBDA locals :
    Bind(readLuaUInt(buf, locals.pos, h), LAMBDA upValueNameCount :
    Bind(ReadStrings(buf, upValueNameCount.pos, h, upValueNameCount.value),
         LAMBDA upValueNames :
           PrototypeRead(upValueNames.pos, readBytes(buf, lastLineDefined.pos, 4),
                         insts.value, constants.value, nestedProtos.value))))))))))))))))

\* The header fields the constructor reads after the signature
Header(buf) ==
    [ version |-> readByte(buf, 4), format |-> readByte(buf, 5),
      isLittleEndian |-> readByte(buf, 6) = 1,
      intSize |-> readByte(buf, 7), sizeTSize |-> readByte(buf, 8),
      instSize |-> readByte(buf, 9), luaNumSize |-> readByte(buf, 10),
      luaNumIsInt |-> readByte(buf, 11) ]

\* The constructor from the version byte on, up to this.mainProto
LoadVersion(buf) ==
    LET h == Header(buf)
    IN  IF h.version # 81 THEN Fail("only lua 5.1 is supported for now")
        ELSE IF h.format # 0 THEN Fail("invalid luac file, format non-zero")
        ELSE IF readByte(buf, 6) \notin {0, 1}
        THEN Fail("invalid luac file, neither big nor small endian")
        ELSE IF h.luaNumIsInt \notin {0, 1}
        THEN Fail("invalid luac file, lua number neither integral nor real")
        ELSE Bind(readPrototype(buf, 12, h, 1),
                  LAMBDA mainProto : [ok |-> TRUE, vm |-> h, protos |-> mainProto.value])

\* The header and the prototype of new LuaVM(data), up to this.mainProto:
\* the header fields of the VM and the prototypes, or the LuaCFormatError thrown
LoadChunk(buf) ==
    LET sig == readBytes(buf, 0, Len(LUA_SIGNATURE))
    IN  IF \E i \in DOMAIN sig : sig[i] # LUA_SIGNATURE[i]
        THEN Fail("invalid luac file, incorrect signature")
        ELSE LoadVersion(buf)

(***************************************************************************)
(* The buffers the VM is constructed from: chunks as luac writes them in   *)
(* a format, which is the header but for the signature.                    *)
(***************************************************************************)
\* n in size bytes
PutUInt(n, size, isLittleEndian) ==
    InOrder([i \in 1..size |-> IF size - i > 3 THEN 0 ELSE (n \div (256 ^ (size - i))) % 256],
            isLittleEndian)
\* The integer n, 0 <= n < 2^20, as a float of size 4 or 8
PutFloat(n, size, isLittleEndian) ==
    LET e == CHOOSE x \in 0..19 : Pow2(x) <= n /\ n < Pow2(x + 1)
        m == (n - Pow2(e)) * Pow2(20 - e)
    IN  IF n = 0 THEN [i \in 1..size |-> 0]
        ELSE InOrder(IF size = 8
                     THEN << (e + 1023) \div 16, ((e + 1023) % 16) * 16 + (m \div 65536),
                             (m \div 256) % 256, m % 256, 0, 0, 0, 0 >>
                     ELSE << (e + 127) \div 2, ((e + 127) % 2) * 128 + (m \div 8192),
                             (m \div 32) % 256, (m % 32) * 8 >>,
                     isLittleEndian)
PutNumber(n, format) ==
    IF format.luaNumIsInt # 0 THEN PutUInt(n, format.luaNumSize, format.isLittleEndian)
    ELSE PutFloat(n, format.luaNumSize, format.isLittleEndian)
\* A string of the given bytes: its length with the trailing NUL, the bytes, the NUL
PutString(bytes, format) ==
    PutUInt(Len(bytes) + 1, format.sizeTSize, format.isLittleEndian) \o bytes \o << 0 >>
\* A string constant is given by its LVString or, as [bytes |-> ...], by its payload
PutConstant(c, format) ==
    CASE "bytes" \in DOMAIN c -> << 4 >> \o PutString(c.bytes, format)
      [] "tag" \in DOMAIN c -> << c.tag >>
      [] c.type = "nil" -> << 0 >>
      [] c.type = "boolean" -> << 1, IF c.bool THEN 1 ELSE 0 >>
      [] c.type = "number" -> << 3 >> \o PutNumber(c.num, format)
      [] c.type = "string" -> << 4 >> \o PutString(BytesOfStr(c.str), format)

RECURSIVE PutPrototype(_, _, _)
\* The prototype protos[i] with the prototypes nested in it, without debug information
PutPrototype(protos, i, format) ==
    LET p == protos[i]
        int(n) == PutUInt(n, format.intSize, format.isLittleEndian)
    IN  PutUInt(0, format.sizeTSize, format.isLittleEndian) \o int(0) \o int(0)
        \o << p.upValueCount, p.paramCount, IF p.isVarArg THEN 2 ELSE 0, p.maxStackSize >>
        \o int(Len(p.insts))
        \o Flatten([k \in DOMAIN p.insts |->
                       PutUInt(p.insts[k], format.instSize, format.isLittleEndian)])
        \o int(Len(p.constants))
        \o Flatten([k \in DOMAIN p.constants |-> PutConstant(p.constants[k], format)])
        \o int(Len(p.nestedProtos))
        \o Flatten([k \in DOMAIN p.nestedProtos |-> PutPrototype(protos, p.nestedProtos[k], format)])
        \o int(0) \o int(0) \o int(0)

\* The chunk of the prototypes protos in a format
Dump(protos, format) ==
    LUA_SIGNATURE
    \o << format.version, format.format, IF format.isLittleEndian THEN 1 ELSE 0,
          format.intSize, format.sizeTSize, format.instSize, format.luaNumSize,
          format.luaNumIsInt >>
    \o PutPrototype(protos, 1, format)

\* The format of luac 5.1 on a 64-bit little-endian machine
StandardFormat ==
    [ version |-> 81, format |-> 0, isLittleEndian |-> TRUE, intSize |-> 4, sizeTSize |-> 8,
      instSize |-> 4, luaNumSize |-> 8, luaNumIsInt |-> 0 ]

(***************************************************************************)
(* The initial state: a buffer to construct the VM from.  The embedder     *)
(* (src/test/test.js) constructs the VM and then calls run().              *)
(***************************************************************************)
NoInst == [name |-> "none"]
Activation(co, via) == [co |-> co, via |-> via, inst |-> NoInst]
None == [kind |-> "none"]

MainFrame(rev, c) ==
    LET proto == c.protos[1]
    IN  [ closure |-> 1, status |-> IF rev = "runCoroutine" THEN "suspended" ELSE "none",
          args |-> ArgsArray(<< >>), pc |-> 0, top |-> 0,
          regs |-> Nils(proto.maxStackSize), openUpValues |-> << >> ]

\* The chunk c as luac writes it in a format
Input(c, format) ==
    [name |-> c.name, k1 |-> c.k1, k2 |-> c.k2, format |-> format, encoded |-> c.protos,
     data |-> Dump(c.protos, format)]

StandardInputs == {Input(c, StandardFormat) : c \in Chunks}

\* Buffers that do not begin with the signature: one of its bytes is another
\* byte, or the buffer ends before the fourth byte
WrongSignature(buf) ==
    {[buf EXCEPT ![i] = b] : i \in DOMAIN LUA_SIGNATURE, b \in {0, 255}}
    \cup {SubSeq(buf, 1, n) : n \in 0..(Len(LUA_SIGNATURE) - 1)}
WrongSignatureInputs ==
    UNION { {[input EXCEPT !.data = buf] : buf \in WrongSignature(input.data)} :
              input \in {i \in StandardInputs : i.name = "returnOne"} }

\* Headers luac can write on other machines, and headers with a size that
\* no reader of the VM supports
Formats ==
    { [StandardFormat EXCEPT !.isLittleEndian = FALSE],
      [StandardFormat EXCEPT !.intSize = 2, !.sizeTSize = 4, !.luaNumSize = 4],
      [StandardFormat EXCEPT !.luaNumIsInt = 1, !.luaNumSize = 4],
      [StandardFormat EXCEPT !.intSize = 3],
      [StandardFormat EXCEPT !.sizeTSize = 3],
      [StandardFormat EXCEPT !.instSize = 3],
      [StandardFormat EXCEPT !.luaNumSize = 3] }
FormatInputs ==
    {Input(c, format) :
        c \in {c \in Chunks : c.name \in {"createHost", "returnOne"} /\ c.k1 = 1 /\ c.k2 = 1},
        format \in Formats}

\* Chunks with a constant of a tag the reader does not know, and with string
\* constants of bytes that are not ASCII letters
ConstantInputs ==
    {Input(Chunk("constant", 1, 1, << ConstantMain(constant) >>), StandardFormat) :
        constant \in {[tag |-> 2], [tag |-> 9], [bytes |-> << >>], [bytes |-> << 0 >>],
                      [bytes |-> << 104, 127 >>], [bytes |-> << 128 >>], [bytes |-> << 255, 97 >>]}}

Inputs == StandardInputs \cup WrongSignatureInputs \cup FormatInputs \cup ConstantInputs

Init ==
    /\ revision \in Revisions
    /\ \E input \in Inputs :
           /\ chunk = [name |-> input.name, k1 |-> input.k1, k2 |-> input.k2,
                       format |-> input.format, encoded |-> input.encoded, protos |-> << >>]
           /\ data = input.data
    /\ vm = [state |-> "new"]
    /\ closures = << >>
    /\ coroutines = << >>
    /\ upvals = << >>
    /\ tables = << >>
    /\ stack = << >>
    /\ completion = None
    /\ history = << >>

\* new LuaVM(data): the header is checked, the globals are made and the
\* prototypes are read; a LuaCFormatError leaves the embedder without a VM.
constructor ==
    /\ vm.state = "new"
    /\ LET loaded == LoadChunk(data)
       IN  IF loaded.ok
           THEN /\ vm' = [state |-> "constructed", header |-> loaded.vm]
                /\ chunk' = [chunk EXCEPT !.protos = loaded.protos]
                /\ tables' = InitTables(revision)
                /\ completion' = None
           ELSE /\ vm' = [state |-> "failed"]
                /\ completion' = [kind |-> "throw", error |-> loaded.error]
                /\ UNCHANGED << chunk, tables >>
    /\ UNCHANGED << revision, coroutines, closures, upvals, stack, history, data >>

\* vm.run(): the main closure is made and the executor is entered with it.
run ==
    /\ vm.state = "constructed"
    /\ vm' = [vm EXCEPT !.state = "run"]
    /\ closures' = << [proto |-> 1, upvalues |-> << >>] >>
    /\ coroutines' = << MainFrame(revision, chunk) >>
    /\ stack' = << Activation(1, "run") >>
    /\ UNCHANGED << revision, chunk, upvals, tables, completion, history, data >>

(***************************************************************************)
(* The executor: the fetch of runCoroutine / runClosure's while loop.      *)
(***************************************************************************)
Running == Len(stack) > 0 /\ completion.kind = "none"
Top == stack[Len(stack)]
Cur == coroutines[Top.co]
CurProto == ProtoOf(Cur)
\* while (pc >= 0 && pc < proto.insts.length)
CanFetch == Running /\ Cur.pc >= 0 /\ Cur.pc < Len(CurProto.insts)
\* const inst = this.decodeInst(proto.insts[pc ++])
Inst == decodeInst(CurProto.insts[Cur.pc + 1])
Fetched == [Cur EXCEPT !.pc = @ + 1]
Dispatch(name) == CanFetch /\ Inst.name = name
\* The heap once the instruction is fetched
FetchedHeap == [Heap EXCEPT !.coroutines[Top.co] = Fetched]

\* The coroutine of the innermost coroutine.resume on the native stack, or 0
RECURSIVE NearestResumed(_)
NearestResumed(stk) ==
    IF stk = << >> THEN 0
    ELSE IF stk[Len(stk)].via = "resume" THEN stk[Len(stk)].co
    ELSE NearestResumed(SubSeq(stk, 1, Len(stk) - 1))

ExecEvent == [e |-> "exec", co |-> Top.co, pc |-> Cur.pc, name |-> Inst.name]
ThrowEvent(error) ==
    [e |-> "throw", co |-> Top.co, target |-> NearestResumed(stack), error |-> error]

Commit(h, stk, comp, events) ==
    /\ coroutines' = h.coroutines
    /\ closures' = h.closures
    /\ upvals' = h.upvals
    /\ tables' = h.tables
    /\ stack' = stk
    /\ completion' = comp
    /\ history' = history \o events
    /\ UNCHANGED << revision, chunk, data, vm >>

\* The handler ends with break: the loop goes on with the frame c.
Proceed(c) == Commit([Heap EXCEPT !.coroutines[Top.co] = c], stack, None, << ExecEvent >>)
ProceedHeap(h) == Commit(h, stack, None, << ExecEvent >>)

\* An error other than LuaYield leaves the executor: runCoroutine's catch
\* rethrows it, coroutine.resume does not catch it and runClosure has no
\* handler, so it unwinds every activation and reaches the caller of run().
Throw(h, error, events) ==
    Commit(h, << >>, [kind |-> "throw", error |-> error], events \o << ThrowEvent(error) >>)

\* return result: the top activation is over.
Return(h, result, events) == Commit(h, stack, [kind |-> "return", result |-> result], events)

RECURSIVE SetRegs(_, _, _)
\* setReg(from + i, values[i]) for each i in turn
SetRegs(c, from, values) ==
    IF values = << >> THEN c
    ELSE SetRegs(setReg(c, from, values[1]), from + 1, Tail(values))

(***************************************************************************)
(* Opcode handlers without calls.                                          *)
(***************************************************************************)
MOVE ==
    /\ Dispatch("MOVE")
    /\ Proceed(setReg(Fetched, Inst.A, ArrGet(Fetched.regs, Inst.B)))

LOADK ==
    /\ Dispatch("LOADK")
    /\ Proceed(setReg(Fetched, Inst.A, ArrGet(CurProto.constants, Inst.Bx)))

LOADNIL ==
    /\ Dispatch("LOADNIL")
    /\ Proceed(SetRegs(Fetched, Inst.A, Nils(Inst.B - Inst.A + 1)))

\* case "LOADBOOL": setReg(A, new LVBoolean(B !== 0)); if (C !== 0) pc ++.
\* runCoroutine keeps its program counter in coroutine.pc and declares no pc.
LOADBOOL ==
    /\ Dispatch("LOADBOOL")
    /\ LET c == setReg(Fetched, Inst.A, LVBoolean(Inst.B # 0))
       IN  IF Inst.C = 0 THEN Proceed(c)
           ELSE IF revision = "runCoroutine"
           THEN Throw([FetchedHeap EXCEPT !.coroutines[Top.co] = c],
                      ReferenceError("pc is not defined"), << ExecEvent >>)
           ELSE Proceed([c EXCEPT !.pc = @ + 1])

GETGLOBAL ==
    /\ Dispatch("GETGLOBAL")
    /\ Proceed(setReg(Fetched, Inst.A, rawGet(tables[1], ArrGet(CurProto.constants, Inst.Bx))))

SETGLOBAL ==
    /\ Dispatch("SETGLOBAL")
    /\ ProceedHeap([FetchedHeap EXCEPT
            !.tables[1] = rawSet(@, ArrGet(CurProto.constants, Inst.Bx), ArrGet(Fetched.regs, Inst.A))])

GETTABLE ==
    /\ Dispatch("GETTABLE")
    /\ LET table == ArrGet(Fetched.regs, Inst.B)
           key == RK(Fetched, CurProto, Inst.C)
       IN  IF table.type = "table"
           THEN Proceed(setReg(Fetched, Inst.A, rawGet(tables[table.table], key)))
           ELSE Throw(FetchedHeap, TypeError("table.rawGet is not a function"), << ExecEvent >>)

\* new LVTable() with array.length = floatingByteToInt(B): only holes
NEWTABLE ==
    /\ Dispatch("NEWTABLE")
    /\ ProceedHeap([FetchedHeap EXCEPT
            !.tables = Append(@, NewLVTable),
            !.coroutines[Top.co] = setReg(@, Inst.A, LVTable(Len(tables) + 1))])

SETTABLE ==
    /\ Dispatch("SETTABLE")
    /\ LET table == ArrGet(Fetched.regs, Inst.A)
           key == RK(Fetched, CurProto, Inst.B)
           val == RK(Fetched, CurProto, Inst.C)
       IN  IF table.type = "table"
           THEN ProceedHeap([FetchedHeap EXCEPT !.tables[table.table] = rawSet(@, key, val)])
           ELSE Throw(FetchedHeap, TypeError("table.rawSet is not a function"), << ExecEvent >>)

\* value.len(context), of a value that is not a string: LVTable.len, or
\* LVBase.len, which finds no __len: only a table has a metatable
LEN ==
    /\ Dispatch("LEN")
    /\ LET value == RK(Fetched, CurProto, Inst.B)
       IN  /\ value.type # "string"
           /\ IF value.type = "table"
              THEN Proceed(setReg(Fetched, Inst.A, len(tables[value.table])))
              ELSE IF IsLVBase(value)
              THEN Throw(FetchedHeap,
                         LuaError("attempt to get length of a " \o value.type \o " value"),
                         << ExecEvent >>)
              ELSE Throw(FetchedHeap, TypeError("value.len is not a function"), << ExecEvent >>)

(***************************************************************************)
(* Up-values.                                                              *)
(***************************************************************************)
RECURSIVE FindOpen(_, _, _)
\* The first up-value of list that is open on register regIndex, or 0
FindOpen(h, list, regIndex) ==
    IF list = << >> THEN 0
    ELSE IF h.upvals[list[1]].isOpen /\ h.upvals[list[1]].index = regIndex THEN list[1]
    ELSE FindOpen(h, Tail(list), regIndex)

\* findOrCreateUpValue(regIndex) of runClosure, in the frame f:
\* the heap after it and the up-value it returns
findOrCreateUpValue(h, f, regIndex) ==
    LET found == FindOpen(h, h.coroutines[f].openUpValues, regIndex)
        new == Len(h.upvals) + 1
    IN  IF found # 0 THEN [h |-> h, upValue |-> found]
        ELSE [h |-> [h EXCEPT !.upvals = Append(@, NewLVUpValue(f, regIndex)),
                              !.coroutines[f].openUpValues = Append(@, new)],
              upValue |-> new]

\* closure.upvalues[B]: the up-value, or 0 for a hole or an index past the end
UpValueAt(h, clo, B) ==
    IF B < Len(h.closures[clo].upvalues) THEN h.closures[clo].upvalues[B + 1] ELSE 0

RECURSIVE BindUpValues(_, _, _, _, _)
\* runClosure's loop over the up-value bindings that follow CLOSURE:
\* binding i of n of the new closure clo, made in the frame f
BindUpValues(h, f, clo, i, n) ==
    IF i >= n THEN [h |-> h, ok |-> TRUE]
    ELSE LET frame == h.coroutines[f]
             upValueInst == decodeInst(ProtoOf(frame).insts[frame.pc + 1])
             h1 == [h EXCEPT !.coroutines[f].pc = @ + 1]
         IN  CASE upValueInst.name = "MOVE" ->
                    LET r == findOrCreateUpValue(h1, f, upValueInst.B)
                    IN  BindUpValues([r.h EXCEPT !.closures[clo].upvalues[i + 1] = r.upValue],
                                     f, clo, i + 1, n)
               [] upValueInst.name = "GETUPVAL" ->
                    BindUpValues([h1 EXCEPT !.closures[clo].upvalues[i + 1] =
                                      UpValueAt(h, frame.closure, upValueInst.B)],
                                 f, clo, i + 1, n)
               [] OTHER -> [h |-> h1, ok |-> FALSE]

CLOSURE ==
    /\ Dispatch("CLOSURE")
    /\ LET newProto == CurProto.nestedProtos[Inst.Bx + 1]
           clo == Len(closures) + 1
           h0 == [FetchedHeap EXCEPT !.closures = Append(@, NewLVClosure(newProto))]
       IN  IF chunk.protos[newProto].upValueCount = 0
           THEN ProceedHeap([h0 EXCEPT !.coroutines[Top.co] = setReg(@, Inst.A, LVClosure(clo))])
           ELSE IF revision = "runCoroutine"
           \* runCoroutine reads the binding with proto.insts[pc ++], and no pc is in scope
           THEN Throw(FetchedHeap, ReferenceError("pc is not defined"), << ExecEvent >>)
           ELSE LET b == BindUpValues(h0, Top.co, clo, 0, chunk.protos[newProto].upValueCount)
                IN  IF b.ok
                    THEN ProceedHeap([b.h EXCEPT !.coroutines[Top.co] = setReg(@, Inst.A, LVClosure(clo))])
                    ELSE Throw(b.h, LuaError("invalid upvalue binding instruction"), << ExecEvent >>)

GETUPVAL ==
    /\ Dispatch("GETUPVAL")
    /\ LET upValue == UpValueAt(Heap, Cur.closure, Inst.B)
       IN  IF upValue = 0
           THEN Throw(FetchedHeap, TypeError("Cannot read properties of undefined"), << ExecEvent >>)
           ELSE Proceed(setReg(Fetched, Inst.A, UpValueGet(FetchedHeap, upValue)))

SETUPVAL ==
    /\ Dispatch("SETUPVAL")
    /\ LET upValue == UpValueAt(Heap, Cur.closure, Inst.B)
       IN  IF upValue = 0
           THEN Throw(FetchedHeap, TypeError("Cannot read properties of undefined"), << ExecEvent >>)
           ELSE IF revision = "runCoroutine"
           \* runCoroutine passes regs[A], and no regs is in scope
           THEN Throw(FetchedHeap, ReferenceError("regs is not defined"), << ExecEvent >>)
           ELSE ProceedHeap(UpValueSet(FetchedHeap, upValue, ArrGet(Fetched.regs, Inst.A)))

\* No up-value is closed
CloseNone(h, list, A) == h

RECURSIVE CloseFrom(_, _, _)
\* for (const upValue of list) if (upValue.isOpen && upValue.index >= A) upValue.close()
CloseFrom(h, list, A) ==
    IF list = << >> THEN h
    ELSE CloseFrom(IF h.upvals[list[1]].isOpen /\ h.upvals[list[1]].index >= A
                   THEN UpValueClose(h, list[1]) ELSE h,
                   Tail(list), A)

\* for (const upValue of list) upValue.close(), with close() left out for the
\* last up-value of the list
RECURSIVE CloseAllButLast(_, _)
CloseAllButLast(h, list) ==
    IF Len(list) <= 1 THEN h ELSE CloseAllButLast(UpValueClose(h, list[1]), Tail(list))

RECURSIVE CloseAll(_, _)
\* for (const upValue of list) upValue.close()
CloseAll(h, list) ==
    IF list = << >> THEN h ELSE CloseAll(UpValueClose(h, list[1]), Tail(list))

CLOSE ==
    /\ Dispatch("CLOSE")
    /\ ProceedHeap(CloseFrom(FetchedHeap, Cur.openUpValues, Inst.A))

\* case "JMP": the open up-values from A on (runCoroutine) or from A - 1 on
\* (runClosure) are closed, then pc += sBx
JMP ==
    /\ Dispatch("JMP")
    /\ Len(history) < MaxHistory
    /\ LET h == CloseFrom(FetchedHeap, Cur.openUpValues,
                          IF revision = "runCoroutine" THEN Inst.A ELSE Inst.A - 1)
       IN  ProceedHeap([h EXCEPT !.coroutines[Top.co].pc = @ + Inst.sBx])

\* case "TEST", case "TESTSET": val = regs[B], cond = val.truthy(context);
\* the next instruction is skipped when cond !== (C !== 0), and otherwise
\* setReg(A, val), which runCoroutine does for TESTSET only
TestOrTestSet ==
    LET val == ArrGet(Fetched.regs, Inst.B)
    IN  IF ~IsLVBase(val)
        THEN Throw(FetchedHeap, TypeError("Cannot read properties of undefined"), << ExecEvent >>)
        ELSE IF truthy(val) # (Inst.C # 0)
        THEN Proceed([Fetched EXCEPT !.pc = @ + 1])
        ELSE IF Inst.name = "TESTSET" \/ revision = "runClosure"
        THEN Proceed(setReg(Fetched, Inst.A, val))
        ELSE Proceed(Fetched)

TEST ==
    /\ Dispatch("TEST")
    /\ TestOrTestSet

TESTSET ==
    /\ Dispatch("TESTSET")
    /\ TestOrTestSet

\* case "UNM": value.unm(context), LVNumber.unm or LVBase.unm, whose
\* argument list names a variable other that is not declared
UNM ==
    /\ Dispatch("UNM")
    /\ LET value == RK(Fetched, CurProto, Inst.B)
       IN  IF ~IsLVBase(value)
           THEN Throw(FetchedHeap, TypeError("Cannot read properties of undefined"), << ExecEvent >>)
           ELSE IF value.type = "number"
           THEN Proceed(setReg(Fetched, Inst.A, LVNumber(0 - value.num)))
           ELSE Throw(FetchedHeap, ReferenceError("other is not defined"), << ExecEvent >>)

\* case "NOT": value.not(context), new LVBoolean(!this.truthy())
NOT ==
    /\ Dispatch("NOT")
    /\ LET value == RK(Fetched, CurProto, Inst.B)
       IN  IF ~IsLVBase(value)
           THEN Throw(FetchedHeap, TypeError("Cannot read properties of undefined"), << ExecEvent >>)
           ELSE Proceed(setReg(Fetched, Inst.A, LVBoolean(~truthy(value))))

(***************************************************************************)
(* Calls.                                                                  *)
(***************************************************************************)
\* obj.metatable: null from LVBase's constructor unless setmetatable stored one
MetatableOf(h, obj) == IF obj.type = "table" THEN h.tables[obj.table].metatable ELSE JSNull
\* !obj.metatable
NoMetatable(h, obj) == MetatableOf(h, obj) \in {JSNull, Undefined}
\* obj.metatable.rawGet is missing: the metatable is an object other than an LVTable
MetatableBroken(h, obj) == ~NoMetatable(h, obj) /\ MetatableOf(h, obj).type # "table"
\* getMeta(context, obj, name), where it does not throw
getMeta(h, obj, name) ==
    IF NoMetatable(h, obj) THEN Undefined
    ELSE rawGet(h.tables[MetatableOf(h, obj).table], JSString(name))
\* The TypeError of obj.metatable.rawGet(...)
NotAFunction(h) ==
    [kind |-> "throw", h |-> h, events |-> << >>,
     error |-> TypeError("obj.metatable.rawGet is not a function")]
\* No protection is seen
Unprotected(h, table) == FALSE
\* protection && protection.type !== "nil"
Protected(h, table) ==
    getMeta(h, table, "__metatable") # Undefined /\ getMeta(h, table, "__metatable").type # "nil"

\* The host functions setmetatable(context, table, metatable) and
\* getmetatable(context, table)
HostMetatable(h, name, args) ==
    LET table == ArrGet(args, 0)
        metatable == ArrGet(args, 1)
        event(threw, after) ==
            << [e |-> name, table |-> table.table, protected |-> Protected(h, table),
                field |-> getMeta(h, table, "__metatable"), threw |-> threw,
                before |-> MetatableOf(h, table), after |-> after] >>
    IN  CASE table = Undefined ->
                [kind |-> "throw", h |-> h, events |-> << >>,
                 error |-> TypeError("Cannot read properties of undefined")]
          [] table # Undefined /\ table.type # "table" ->
                [kind |-> "throw", h |-> h, events |-> << >>,
                 error |-> LuaError("bad argument #1 to '" \o name \o "' (table expected, got "
                                    \o table.type \o ")")]
          [] OTHER ->
                IF MetatableBroken(h, table) THEN NotAFunction(h)
                ELSE IF name = "setmetatable"
                THEN IF Protected(h, table)
                     THEN [kind |-> "throw", h |-> h,
                           error |-> LuaError("cannot change a protected metatable"),
                           events |-> event(TRUE, MetatableOf(h, table))]
                     ELSE [kind |-> "value", result |-> Single(table),
                           h |-> [h EXCEPT !.tables[table.table].metatable = metatable],
                           events |-> event(FALSE, metatable)]
                ELSE [kind |-> "value", h |-> h,
                      result |-> Single(IF Protected(h, table)
                                        THEN getMeta(h, table, "__metatable")
                                        ELSE wrap(MetatableOf(h, table))),
                      events |-> event(FALSE, MetatableOf(h, table))]

\* Number(v) of a JS number, boolean or string (a string that is the decimal
\* numeral of one of 0..99 or is empty), as a one-element sequence; NaN otherwise
NaN == << >>
ToNumber(v) ==
    CASE v.js = "number" -> << v.num >>
      [] v.js = "boolean" -> << IF v.bool THEN 1 ELSE 0 >>
      [] v.js = "string" /\ v.str = "" -> << 0 >>
      [] v.js = "string" /\ (\E n \in 0..99 : NumberToString(n) = v.str) ->
            << CHOOSE n \in 0..99 : NumberToString(n) = v.str >>
      [] OTHER -> NaN
\* a == b of JS: null and undefined equal each other and nothing else, values of
\* one type are equal when they are the same, numbers, booleans and strings
\* of different types are compared as numbers
LooseEquals(a, b) ==
    IF ~IsJS(a) \/ ~IsJS(b) \/ a = JSNull \/ b = JSNull
    THEN (~IsJS(a) \/ a = JSNull) /\ (~IsJS(b) \/ b = JSNull)
    ELSE IF a.js = b.js THEN a = b
    ELSE IF a.js = "function" \/ b.js = "function" THEN FALSE
    ELSE ToNumber(a) # NaN /\ ToNumber(a) = ToNumber(b)

RECURSIVE FindIndex(_, _, _)
\* list.findIndex((key) => key == value), from the index i on: the index or -1
FindIndex(list, value, i) ==
    IF i >= Len(list) THEN 0 - 1
    ELSE IF LooseEquals(list[i + 1], value) THEN i
    ELSE FindIndex(list, value, i + 1)

\* The host function next(context, table, lastKey)
HostNext(h, args) ==
    LET table == ArrGet(args, 0)
        lastKey == ArrGet(args, 1)
        keyList == keys(h.tables[table.table])
        \* runClosure reads lastKey.type without the test !lastKey
        searches == lastKey = Undefined \/ lastKey.type # "nil"
        found == FindIndex(keyList, unwrap(lastKey), 0)
        start == IF searches THEN found + 1 ELSE 0
        key == keyList[start + 1]
        event(result) ==
            << [e |-> "next", table |-> table.table, keys |-> keyList, lastKey |-> lastKey,
                result |-> result] >>
    IN  CASE table = Undefined \/ (revision = "runClosure" /\ lastKey = Undefined) ->
                [kind |-> "throw", h |-> h, events |-> << >>,
                 error |-> TypeError("Cannot read properties of undefined")]
          [] table # Undefined /\ table.type # "table" ->
                [kind |-> "throw", h |-> h, events |-> << >>,
                 error |-> LuaError("bad argument #1 to 'next' (table expected, got "
                                    \o table.type \o ")")]
          [] OTHER ->
                IF searches /\ found = 0 - 1
                THEN [kind |-> "throw", h |-> h, error |-> LuaError("invalid key to 'next'"),
                      events |-> event(<< >>)]
                ELSE IF start >= Len(keyList)
                \* wrap(context): nil
                THEN [kind |-> "value", h |-> h, result |-> Single(wrap(Undefined)),
                      events |-> event(<< LVNil >>)]
                \* runClosure calls wrap(key): the key is taken for the context
                ELSE LET pair == << IF revision = "runCoroutine" THEN wrap(key) ELSE wrap(Undefined),
                                    rawGet(h.tables[table.table], key) >>
                     IN  [kind |-> "value", h |-> h, result |-> LVTuple(pair),
                          events |-> event(pair)]

\* args.slice(start) of JS: a negative start counts from the end
SliceFrom(list, start) ==
    ArrSlice(list, IF start < 0 THEN Max(Len(list) + start, 0) ELSE start, Len(list))

\* The host function select(context, index, ...args)
HostSelect(h, args) ==
    LET index == ArrGet(args, 0)
        rest == ArrSlice(args, 1, Len(args))
        value == index.num
        i == IF value < 0 THEN Len(rest) + value + 1 ELSE value
        event(result, threw) ==
            << [e |-> "select", index |-> index, args |-> rest, result |-> result,
                threw |-> threw] >>
        throw(error) == [kind |-> "throw", h |-> h, error |-> error, events |-> event(<< >>, TRUE)]
        tuple(values) ==
            [kind |-> "value", h |-> h, result |-> LVTuple(values), events |-> event(values, FALSE)]
    IN  CASE index = Undefined -> throw(TypeError("Cannot read properties of undefined"))
          [] index # Undefined /\ unwrap(index) = JSString(Chr(35)) ->
                [kind |-> "value", h |-> h, result |-> Single(wrap(JSNumber(Len(rest)))),
                 events |-> event(<< wrap(JSNumber(Len(rest))) >>, FALSE)]
          [] index # Undefined /\ unwrap(index) # JSString(Chr(35)) /\ index.type # "number" ->
                throw(LuaError("bad argument #1 to 'select' (number expected, got "
                               \o index.type \o ")"))
          [] OTHER ->
                IF value \notin Int
                THEN throw(LuaError("bad argument #1 to 'select' (number has no integer representation)"))
                ELSE IF value > Len(rest) THEN tuple(<< >>)
                \* runClosure has no declaration of i
                ELSE IF revision = "runClosure" THEN throw(ReferenceError("i is not defined"))
                ELSE IF i <= 0 \/ i > Len(rest)
                THEN throw(LuaError("bad argument #1 to 'select' (index out of range)"))
                ELSE tuple(SliceFrom(rest, value - 1))

\* The host functions of the coroutine library and print, called with args from
\* the top activation.  What the call comes to:
\*   value: it returned result;  throw: it threw error;  yield: it threw
\*   LuaYield(values);  enter: it entered the executor on coroutine co.
HostCall(h, name, args) ==
    CASE name = "yield" ->
            [kind |-> "yield", h |-> h, values |-> args,
             events |-> << [e |-> "yield", co |-> Top.co, target |-> NearestResumed(stack),
                            values |-> args] >>]
      [] name = "resume" ->
            LET coroutine == ArrGet(args, 0)
                rest == ArrSlice(args, 1, Len(args))
            IN  IF ~IsCoroutine(coroutine)
                \* errors.badArgType(..., co.type, ...): no co is in scope
                THEN [kind |-> "throw", h |-> h, error |-> ReferenceError("co is not defined"),
                      events |-> << >>]
                ELSE LET id == coroutine.coroutine
                         was == h.coroutines[id].status
                         fresh == h.coroutines[id].pc = 0
                     IN  IF was = "dead"
                         THEN [kind |-> "value", h |-> h,
                               result |-> LVTuple(<< LVBoolean(FALSE),
                                                     LVString("cannot resume dead coroutine") >>),
                               events |-> << [e |-> "refused", co |-> id, was |-> was] >>]
                         ELSE [kind |-> "enter", h |-> [h EXCEPT !.coroutines[id].status = "running"],
                               co |-> id, via |-> "resume",
                               events |-> << [e |-> "resume", co |-> id, was |-> was,
                                              first |-> fresh, args |-> rest] >>]
      [] name = "create" ->
            LET func == ArrGet(args, 0)
                id == Len(h.coroutines) + 1
            IN  CASE func = Undefined ->
                        [kind |-> "throw", h |-> h, events |-> << >>,
                         error |-> TypeError("Cannot read properties of undefined")]
                  [] func # Undefined /\ func.type # "function" ->
                        [kind |-> "throw", h |-> h, events |-> << >>,
                         error |-> LuaError("bad argument #1 to 'create' (function expected, got "
                                            \o func.type \o ")")]
                  \* new LVCoroutine(func, []) reads func.proto.maxStackSize
                  [] IsHost(func) ->
                        [kind |-> "throw", h |-> h, events |-> << >>,
                         error |-> TypeError("Cannot read properties of undefined")]
                  [] OTHER ->
                        [kind |-> "value",
                         h |-> [h EXCEPT !.coroutines =
                                   Append(@, NewLVCoroutine(func.closure, ArgsArray(<< >>)).object)],
                         result |-> Single(LVCoroutine(id)),
                         events |-> << [e |-> "create", co |-> id] >>]
      \* msgs.map((msg) => msg.print(context)), and no return
      [] name = "print" ->
            IF \E i \in DOMAIN args : ~IsLVBase(args[i])
            THEN [kind |-> "throw", h |-> h, events |-> << >>,
                  error |-> TypeError("msg.print is not a function")]
            ELSE [kind |-> "value", h |-> h, result |-> Single(Undefined), events |-> << >>]
      [] name = "next" -> HostNext(h, args)
      [] name = "select" -> HostSelect(h, args)
      \* pairs(context, table): next, the table, nil
      [] name = "pairs" ->
            [kind |-> "value", h |-> h, events |-> << >>,
             result |-> LVTuple(<< rawGet(h.tables[1], JSString("next")), ArrGet(args, 0), LVNil >>)]
      [] name \in {"setmetatable", "getmetatable"} -> HostMetatable(h, name, args)

HostNames == {"yield", "resume", "create", "print", "next", "setmetatable", "getmetatable", "select", "pairs"}

RECURSIVE Invoke(_, _, _)
\* call(context, value, ...args), from the top activation
Invoke(h, value, args) ==
    CASE IsHost(value) -> HostCall(h, value.host, args)
      [] IsClosure(value) ->
            IF revision = "runCoroutine"
            \* new LVCoroutine(value, ...args): the constructor's args is args[0]
            THEN LET made == NewLVCoroutine(value.closure, ArrGet(args, 0))
                 IN  IF made.ok
                     THEN [kind |-> "enter", h |-> [h EXCEPT !.coroutines = Append(@, made.object)],
                           co |-> Len(h.coroutines) + 1, via |-> "call", events |-> << >>]
                     ELSE [kind |-> "throw", h |-> h, error |-> made.error, events |-> << >>]
            ELSE [kind |-> "enter",
                  h |-> [h EXCEPT !.coroutines = Append(@, NewFrame(value.closure, args))],
                  co |-> Len(h.coroutines) + 1, via |-> "call", events |-> << >>]
      [] IsCoroutine(value) ->
            [kind |-> "enter", h |-> h, co |-> value.coroutine, via |-> "call", events |-> << >>]
      \* value instanceof LVBase: every value but undefined
      [] OTHER ->
            IF value # Undefined /\ MetatableBroken(h, value) THEN NotAFunction(h)
            ELSE IF value # Undefined /\ getMeta(h, value, "__call") # Undefined
                    /\ truthy(getMeta(h, value, "__call"))
            THEN Invoke(h, getMeta(h, value, "__call"), << value >> \o args)
            ELSE [kind |-> "throw", h |-> h, events |-> << >>,
                  error |-> LuaError("attempt to call a " \o value.type \o " value")]

Invocable(value) == IsHost(value) => value.host \in HostNames

\* B === 0 ? top - (A + 1) : B - 1
ArgCount(c, inst) == IF inst.B = 0 THEN c.top - (inst.A + 1) ELSE inst.B - 1
\* regs.slice(A + 1, A + 1 + argCount)
CallArgs(c, inst) == ArrSlice(c.regs, inst.A + 1, inst.A + 1 + ArgCount(c, inst))

\* The results into the registers from 0 on
WriteBackFromZero(c, inst, values) ==
    SetRegs(c, 0, [i \in 1..(inst.C - 1) |-> Coalesce(ArrGet(values, i - 1), LVNil)])

\* The end of the CALL handler: the results into the registers from A on
CallWriteBack(c, inst, values) ==
    CASE inst.C = 0 -> [SetRegs(c, inst.A, values) EXCEPT !.top = inst.A + Len(values)]
      [] inst.C = 1 -> c
      [] OTHER ->
            [SetRegs(c, inst.A, [i \in 1..(inst.C - 1) |-> Coalesce(ArrGet(values, i - 1), LVNil)])
                EXCEPT !.top = inst.A + inst.C - 1]

\* The end of the TFORLOOP handler: the loop is left when the first value is nil
TForWriteBack(c, inst, values) ==
    LET newCtrl == Coalesce(ArrGet(values, 0), LVNil)
    IN  IF newCtrl.type = "nil" THEN [c EXCEPT !.pc = @ + inst.Bx - 1]
        ELSE SetRegs(setReg(c, inst.A + 2, newCtrl), inst.A + 3, values)

\* The end of the TAILCALL handler: what it returns
TailCallResult(inst, result) ==
    IF revision = "runClosure" THEN result
    ELSE LET values == normalize(result)
         IN  CASE inst.C = 0 -> LVTuple(values)
               [] inst.C = 1 -> LVTuple(<< >>)
               [] inst.C = 2 -> Single(Coalesce(ArrGet(values, 0), LVNil))
               [] OTHER -> LVTuple([i \in 1..Min(inst.C - 1, Len(values)) |-> values[i]])

\* The call made by CALL and TAILCALL, and what follows it in the handler when
\* the callee is a host function; a callee the executor runs is entered, and
\* the handler waits for it on the native stack with its instruction.
CallOutcome(h, inst, r) ==
    CASE r.kind = "throw" -> Throw(r.h, r.error, << ExecEvent >> \o r.events)
      \* catch (error instanceof LuaYield): coroutine.status = "suspended"
      [] r.kind = "yield" ->
            Return([r.h EXCEPT !.coroutines[Top.co].status = "suspended"],
                   LVTuple(r.values), << ExecEvent >> \o r.events)
      [] r.kind = "enter" ->
            Commit(r.h, [stack EXCEPT ![Len(stack)].inst = inst] \o << Activation(r.co, r.via) >>,
                   None, << ExecEvent >> \o r.events)
      [] r.kind = "value" /\ inst.name = "CALL" ->
            Commit([r.h EXCEPT !.coroutines[Top.co] = CallWriteBack(@, inst, normalize(r.result))],
                   stack, None, << ExecEvent >> \o r.events)
      [] r.kind = "value" /\ inst.name = "TAILCALL" ->
            Return(r.h, TailCallResult(inst, r.result), << ExecEvent >> \o r.events)
      [] r.kind = "value" /\ inst.name = "TFORLOOP" ->
            Commit([r.h EXCEPT !.coroutines[Top.co] = TForWriteBack(@, inst, normalize(r.result))],
                   stack, None, << ExecEvent >> \o r.events)
      [] r.kind = "value" /\ inst.name = "ADD" ->
            Commit([r.h EXCEPT !.coroutines[Top.co] = setReg(@, inst.A, Raw(r.result))],
                   stack, None, << ExecEvent >> \o r.events)

CALL ==
    /\ Dispatch("CALL")
    /\ Invocable(ArrGet(Fetched.regs, Inst.A))
    /\ CallOutcome(FetchedHeap, Inst,
                   Invoke(FetchedHeap, ArrGet(Fetched.regs, Inst.A), CallArgs(Fetched, Inst)))

TAILCALL ==
    /\ Dispatch("TAILCALL")
    /\ Invocable(ArrGet(Fetched.regs, Inst.A))
    /\ LET h == CloseAll(FetchedHeap, Cur.openUpValues)
       IN  CallOutcome(h, Inst, Invoke(h, ArrGet(Fetched.regs, Inst.A), CallArgs(Fetched, Inst)))

\* other.asNumber(context).value if it is a number: LVNumber.asNumber,
\* LVString.asNumber (Number(str), NaN giving nil), LVBase.asNumber (nil)
AsNumber(other) ==
    CASE other.type = "number" -> << other.num >>
      [] other.type = "string" -> ToNumber(JSString(other.str))
      [] OTHER -> NaN

\* case "ADD": left.add(context, right), LVNumber.add or LVBase.add, both
\* through overrideable, and setReg(A, result)
ADD ==
    /\ Dispatch("ADD")
    /\ LET left == first(RK(Fetched, CurProto, Inst.B))
           right == first(RK(Fetched, CurProto, Inst.C))
           handler == getMeta(FetchedHeap, left, "__add")
       IN  CASE left = Undefined \/ (left.type = "number" /\ right = Undefined) ->
                    Throw(FetchedHeap, TypeError("Cannot read properties of undefined"), << ExecEvent >>)
             [] left # Undefined /\ left.type = "number" /\ right # Undefined /\ AsNumber(right) # NaN ->
                    Proceed(setReg(Fetched, Inst.A, LVNumber(left.num + AsNumber(right)[1])))
             [] OTHER ->
                    IF MetatableBroken(FetchedHeap, left)
                    THEN Throw(FetchedHeap, TypeError("obj.metatable.rawGet is not a function"),
                               << ExecEvent >>)
                    ELSE IF handler # Undefined /\ truthy(handler)
                    THEN /\ Invocable(handler)
                         /\ CallOutcome(FetchedHeap, Inst, Invoke(FetchedHeap, handler, << left, right >>))
                    ELSE Throw(FetchedHeap,
                               LuaError("attempt to perform arithmetic on a "
                                        \o (IF left.type = "number" THEN right.type ELSE left.type)
                                        \o " value"),
                               << ExecEvent >>)

\* left.add(context, right) or left.sub(context, right) of values without a
\* metatable, sign the 1 or -1 of the operation: the number or the error
Arith(left, right, sign) ==
    IF ~IsLVBase(left) \/ (left.type = "number" /\ ~IsLVBase(right))
    THEN [ok |-> FALSE, error |-> TypeError("Cannot read properties of undefined")]
    ELSE IF left.type = "number" /\ AsNumber(right) # NaN
    THEN [ok |-> TRUE, value |-> LVNumber(left.num + sign * AsNumber(right)[1])]
    ELSE [ok |-> FALSE,
          error |-> LuaError("attempt to perform arithmetic on a "
                             \o (IF left.type = "number" THEN right.type ELSE left.type)
                             \o " value")]

\* The three type tests of the numeric for: the error of the first that fails
ForCheck(counter, limit, step) ==
    IF ~IsLVBase(counter) \/ (counter.type = "number" /\ ~IsLVBase(limit))
       \/ (counter.type = "number" /\ limit.type = "number" /\ ~IsLVBase(step))
    THEN [ok |-> FALSE, error |-> TypeError("Cannot read properties of undefined")]
    ELSE IF counter.type # "number"
    THEN [ok |-> FALSE, error |-> LuaError("'for' initial value must be a number")]
    ELSE IF limit.type # "number"
    THEN [ok |-> FALSE, error |-> LuaError("'for' limit must be a number")]
    ELSE IF step.type # "number"
    THEN [ok |-> FALSE, error |-> LuaError("'for' step must be a number")]
    ELSE [ok |-> TRUE]

\* The loop never ends
ForAlways(step, limit, newCounter) == TRUE

\* continueLoop of FORLOOP for numbers: step.le(0) ? limit.le(newCounter)
\* : newCounter.le(limit)
ForContinues(step, limit, newCounter) ==
    IF step <= 0 THEN limit <= newCounter ELSE newCounter <= limit

\* case "FORPREP": runCoroutine tests the three types, then
\* setReg(A, regs[A].sub(context, regs[A + 2])) and pc += sBx.
\* A table as the counter (a possible __sub) is not followed.
FORPREP ==
    /\ Dispatch("FORPREP")
    /\ LET counter == ArrGet(Fetched.regs, Inst.A)
           limit == ArrGet(Fetched.regs, Inst.A + 1)
           step == ArrGet(Fetched.regs, Inst.A + 2)
           checked == IF revision = "runCoroutine" THEN ForCheck(counter, limit, step)
                      ELSE [ok |-> TRUE]
           diff == Arith(counter, step, 0 - 1)
       IN  /\ IsLVBase(counter) => counter.type # "table"
           /\ IF ~checked.ok THEN Throw(FetchedHeap, checked.error, << ExecEvent >>)
              ELSE IF ~diff.ok THEN Throw(FetchedHeap, diff.error, << ExecEvent >>)
              ELSE Proceed([setReg(Fetched, Inst.A, diff.value) EXCEPT !.pc = @ + Inst.sBx])

\* case "FORLOOP": runClosure tests the three types; then the counter is
\* advanced and, while it has not passed the limit, copied to R[A + 3] with
\* pc += sBx.  Operands that are not numbers are followed as far as the
\* error of counter.add(context, step); a limit that is no number in
\* runCoroutine is not followed.
FORLOOP ==
    /\ Dispatch("FORLOOP")
    /\ LET counter == ArrGet(Fetched.regs, Inst.A)
           limit == ArrGet(Fetched.regs, Inst.A + 1)
           step == ArrGet(Fetched.regs, Inst.A + 2)
           checked == IF revision = "runClosure" THEN ForCheck(counter, limit, step)
                      ELSE [ok |-> TRUE]
           sum == Arith(counter, step, 1)
           advanced == setReg(Fetched, Inst.A, sum.value)
       IN  /\ IsLVBase(counter) => counter.type # "table"
           /\ IF ~checked.ok THEN Throw(FetchedHeap, checked.error, << ExecEvent >>)
              ELSE IF ~sum.ok THEN Throw(FetchedHeap, sum.error, << ExecEvent >>)
              ELSE /\ IsLVBase(limit) /\ limit.type = "number" /\ step.type = "number"
                   /\ IF ForContinues(step.num, limit.num, sum.value.num)
                      THEN Proceed([setReg(advanced, Inst.A + 3, sum.value) EXCEPT !.pc = @ + Inst.sBx])
                      ELSE Proceed(advanced)

\* The bytes of the payload str of an LVString, for payloads of at most one
\* byte
OneByte == {<< >>} \cup {<< b >> : b \in 0 .. 255}
HasBytes(str) == \E bytes \in OneByte : StrOfBytes(bytes) = str
BytesOf(str) == CHOOSE bytes \in OneByte : StrOfBytes(bytes) = str
\* String(n) of an integer n, as code units
RECURSIVE DecimalUnits(_)
DecimalUnits(n) ==
    IF n < 0 THEN << 45 >> \o DecimalUnits(0 - n)
    ELSE IF n < 10 THEN << 48 + n >>
    ELSE DecimalUnits(n \div 10) \o << 48 + (n % 10) >>
\* String(u8) of a Uint8Array: its bytes in decimal, joined by commas
RECURSIVE Uint8ArrayToString(_)
Uint8ArrayToString(bytes) ==
    IF bytes = << >> THEN << >>
    ELSE IF Len(bytes) = 1 THEN DecimalUnits(bytes[1])
    ELSE DecimalUnits(bytes[1]) \o << 44 >> \o Uint8ArrayToString(Tail(bytes))

\* left.concat(context, right): LVNumber.concat, LVString.concat (this.value
\* is a Uint8Array) or LVBase.concat.  A __concat handler is not followed.
Concat(h, left, right) ==
    LET otherVal == IF right.type = "number" THEN DecimalUnits(right.num) ELSE << >>
        failed(type) == [kind |-> "throw",
                         error |-> LuaError("attempt to concatenate a " \o type \o " value")]
        made(units) == [kind |-> "value", value |-> NewLVString([kind |-> "string", units |-> units]).value]
        handled(obj) == getMeta(h, obj, "__concat") # Undefined /\ truthy(getMeta(h, obj, "__concat"))
    IN  IF ~IsLVBase(left) \/ ~IsLVBase(right)
        THEN [kind |-> "throw", error |-> TypeError("Cannot read properties of undefined")]
        ELSE IF MetatableBroken(h, left) \/ handled(left) THEN [kind |-> "unfollowed"]
        ELSE CASE left.type = "number" ->
                    IF right.type = "number" THEN made(DecimalUnits(left.num) \o otherVal)
                    ELSE failed(right.type)
               [] left.type = "string" ->
                    IF right.type # "number" THEN failed(right.type)
                    ELSE IF ~HasBytes(left.str) THEN [kind |-> "unfollowed"]
                    ELSE made(Uint8ArrayToString(BytesOf(left.str)) \o otherVal)
               [] OTHER ->
                    IF MetatableBroken(h, right) \/ handled(right) THEN [kind |-> "unfollowed"]
                    ELSE failed(left.type)

\* for (let i = B + 1; i <= C; i ++) result = result.concat(context, first(RK(i)))
RECURSIVE ConcatFrom(_, _, _, _, _)
ConcatFrom(h, c, result, i, C) ==
    IF i > C \/ result.kind # "value" THEN result
    ELSE ConcatFrom(h, c, Concat(h, result.value, first(RK(c, ProtoOf(c), i))), i + 1, C)

\* case "CONCAT"
CONCAT ==
    /\ Dispatch("CONCAT")
    /\ LET result == ConcatFrom(FetchedHeap, Fetched,
                                [kind |-> "value", value |-> first(RK(Fetched, CurProto, Inst.B))],
                                Inst.B + 1, Inst.C)
       IN  /\ result.kind # "unfollowed"
           /\ IF result.kind = "throw" THEN Throw(FetchedHeap, result.error, << ExecEvent >>)
              ELSE Proceed(setReg(Fetched, Inst.A, result.value))

\* left.eq(context, right): LVNumber.eq, LVString.eq (this.value ===
\* other.value of two Uint8Arrays: the same object), LVBoolean.eq, LVNil.eq
\* and LVBase.eq.  An __eq handler is not followed, nor are two strings
\* made by host code, whose objects the model does not tell apart.
Eq(h, left, right) ==
    LET decided(b) == [kind |-> "value", value |-> LVBoolean(b)]
    IN  IF ~IsLVBase(left) \/ ~IsLVBase(right)
        THEN [kind |-> "throw", error |-> TypeError("Cannot read properties of undefined")]
        ELSE IF left.type # right.type THEN decided(FALSE)
        ELSE CASE left.type = "number" -> decided(left.num = right.num)
               [] left.type = "boolean" -> decided(left.bool = right.bool)
               [] left.type = "nil" -> decided(TRUE)
               [] left.type = "string" ->
                    IF "ref" \in DOMAIN left /\ "ref" \in DOMAIN right
                    THEN decided(left.ref = right.ref)
                    ELSE IF "ref" \in DOMAIN left \/ "ref" \in DOMAIN right
                    THEN decided(FALSE)
                    ELSE [kind |-> "unfollowed"]
               [] OTHER ->
                    IF left = right THEN decided(TRUE)
                    ELSE IF MetatableBroken(h, left)
                            \/ (getMeta(h, left, "__eq") # Undefined /\ truthy(getMeta(h, left, "__eq")))
                    THEN [kind |-> "unfollowed"]
                    ELSE decided(FALSE)

\* case "EQ": if (result.truthy() !== (A !== 0)) pc ++
EQ ==
    /\ Dispatch("EQ")
    /\ LET result == Eq(FetchedHeap, first(RK(Fetched, CurProto, Inst.B)),
                        first(RK(Fetched, CurProto, Inst.C)))
       IN  /\ result.kind # "unfollowed"
           /\ IF result.kind = "throw" THEN Throw(FetchedHeap, result.error, << ExecEvent >>)
              ELSE IF truthy(result.value) # (Inst.A # 0)
              THEN Proceed([Fetched EXCEPT !.pc = @ + 1])
              ELSE Proceed(Fetched)

\* case "TFORLOOP": call(context, R[A], R[A + 1], R[A + 2])
TFORLOOP ==
    /\ Dispatch("TFORLOOP")
    /\ Invocable(ArrGet(Fetched.regs, Inst.A))
    /\ CallOutcome(FetchedHeap, Inst,
                   Invoke(FetchedHeap, ArrGet(Fetched.regs, Inst.A),
                          << ArrGet(Fetched.regs, Inst.A + 1), ArrGet(Fetched.regs, Inst.A + 2) >>))

RETURN ==
    /\ Dispatch("RETURN")
    /\ LET h == CloseAll(FetchedHeap, Cur.openUpValues)
           c == h.coroutines[Top.co]
       IN  CASE Inst.B = 0 ->
                    Return(h, LVTuple(ArrSlice(c.regs, Inst.A, c.top)), << ExecEvent >>)
             [] Inst.B = 1 -> Return(h, LVTuple(<< >>), << ExecEvent >>)
             [] Inst.B = 2 -> Return(h, Single(ArrGet(c.regs, Inst.A)), << ExecEvent >>)
             \* runCoroutine slices regs, and no regs is in scope
             [] Inst.B > 2 /\ revision = "runCoroutine" ->
                    Throw(h, ReferenceError("regs is not defined"), << ExecEvent >>)
             [] OTHER ->
                    Return(h, LVTuple(ArrSlice(c.regs, Inst.A, Inst.A + Inst.B - 1)), << ExecEvent >>)

\* default: the opcode has no name in LUA_OPCODES, so inst.name is undefined
\* and no case of the switch matches
InvalidOpcode ==
    /\ Dispatch("undefined")
    /\ Throw(FetchedHeap, LuaCFormatError("invalid opcode undefined"), << ExecEvent >>)

\* The while loop ends with pc past the last instruction: the executor returns undefined.
EndOfInsts ==
    /\ Running
    /\ ~CanFetch
    /\ Return(Heap, Single(Undefined), << >>)

(***************************************************************************)
(* The return of an activation to what entered it.                         *)
(***************************************************************************)
\* The rest of coroutine.resume once runCoroutine(coroutine) has returned result:
\* the heap after it and what resume returns or throws
ResumeReturn(h, co, result) ==
    IF h.coroutines[co].status = "suspended"
    THEN IF result.tuple
         THEN [h |-> h, ok |-> TRUE, result |-> LVTuple(<< LVBoolean(TRUE) >> \o result.values)]
         \* ...result.values of a result that is no LVTuple
         ELSE [h |-> h, ok |-> FALSE, error |-> TypeError("result.values is not iterable")]
    ELSE [h |-> [h EXCEPT !.coroutines[co].status = "dead"], ok |-> TRUE,
          result |-> LVTuple(<< LVBoolean(TRUE) >> \o normalize(result))]

ResumedEvent(co, r) ==
    IF r.ok THEN << [e |-> "resumed", co |-> co, ok |-> r.result.values[1].bool,
                     values |-> Tail(r.result.values)] >>
    ELSE << >>

ReturnToCaller ==
    /\ Len(stack) > 0
    /\ completion.kind = "return"
    /\ LET callee == Top
           rest == SubSeq(stack, 1, Len(stack) - 1)
       IN  IF rest = << >>
           \* run() returns the result of the main activation
           THEN Commit(Heap, << >>, completion, << >>)
           ELSE LET caller == rest[Len(rest)]
                    r == IF callee.via = "resume"
                         THEN ResumeReturn(Heap, callee.co, completion.result)
                         ELSE [h |-> Heap, ok |-> TRUE, result |-> completion.result]
                    events == IF callee.via = "resume" THEN ResumedEvent(callee.co, r) ELSE << >>
                    back == [rest EXCEPT ![Len(rest)].inst = NoInst]
                IN  CASE ~r.ok ->
                            Commit(r.h, << >>, [kind |-> "throw", error |-> r.error],
                                   << [e |-> "throw", co |-> caller.co,
                                       target |-> NearestResumed(rest), error |-> r.error] >>)
                      [] r.ok /\ caller.inst.name = "CALL" ->
                            Commit([r.h EXCEPT !.coroutines[caller.co] =
                                        CallWriteBack(@, caller.inst, normalize(r.result))],
                                   back, None, events)
                      [] r.ok /\ caller.inst.name = "TAILCALL" ->
                            Commit(r.h, back,
                                   [kind |-> "return", result |-> TailCallResult(caller.inst, r.result)],
                                   events)
                      [] r.ok /\ caller.inst.name = "TFORLOOP" ->
                            Commit([r.h EXCEPT !.coroutines[caller.co] =
                                        TForWriteBack(@, caller.inst, normalize(r.result))],
                                   back, None, events)
                      \* setReg(A, result) of the handler that called a metamethod
                      [] r.ok /\ caller.inst.name = "ADD" ->
                            Commit([r.h EXCEPT !.coroutines[caller.co] =
                                        setReg(@, caller.inst.A, Raw(r.result))],
                                   back, None, events)

Next ==
    \/ constructor
    \/ run
    \/ MOVE
    \/ LOADK
    \/ LOADNIL
    \/ GETGLOBAL
    \/ SETGLOBAL
    \/ GETTABLE
    \/ NEWTABLE
    \/ SETTABLE
    \/ LEN
    \/ ADD
    \/ CLOSURE
    \/ GETUPVAL
    \/ SETUPVAL
    \/ CLOSE
    \/ JMP
    \/ LOADBOOL
    \/ EQ
    \/ CONCAT
    \/ UNM
    \/ NOT
    \/ FORPREP
    \/ FORLOOP
    \/ TEST
    \/ TESTSET
    \/ TFORLOOP
    \/ CALL
    \/ TAILCALL
    \/ RETURN
    \/ InvalidOpcode
    \/ EndOfInsts
    \/ ReturnToCaller

Spec == Init /\ [][Next]_vars

(***************************************************************************)
(* Properties.  The history variable records, in order, the instructions   *)
(* executed (exec), the calls of coroutine.yield (yield, with the          *)
(* coroutine whose resume is innermost on the native stack as target), the *)
(* calls of coroutine.resume that enter the executor (resume) or refuse    *)
(* (refused), the returns of coroutine.resume (resumed) and the errors     *)
(* thrown (throw).                                                         *)
(***************************************************************************)
Events(kind) == {i \in DOMAIN history : history[i].e = kind}
LastEvent == history[Len(history)]
\* The coroutines made by coroutine.create
Created == {history[i].co : i \in Events("create")}
\* coroutine c has an activation entered by coroutine.resume on the native stack
BeingResumed(c) == \E k \in DOMAIN stack : stack[k].co = c /\ stack[k].via = "resume"
\* The instruction at pc of the frame c
InstAt(c, pc) == decodeInst(chunk.protos[closures[coroutines[c].closure].proto].insts[pc + 1])

\* C1: a coroutine.yield(vals...) made anywhere inside a resumed coroutine,
\* in its body or in a function called from it, unwinds to the resume of that
\* coroutine: the coroutine is suspended, and the next thing to happen is that
\* resume returning (true, vals...), no instruction being executed in between.
C1_YieldUnwindsToResume ==
    \A i \in Events("yield") :
        history[i].target # 0 =>
            IF i = Len(history)
            THEN coroutines[history[i].target].status = "suspended"
            ELSE /\ history[i + 1].e = "resumed"
                 /\ history[i + 1].co = history[i].target
                 /\ history[i + 1].ok
                 /\ history[i + 1].values = history[i].values

\* The registers the CALL instruction inst writes its results to
ResultRegisters(inst) == IF inst.C < 2 THEN {} ELSE 0..(inst.C - 2)

\* C2: when a suspended coroutine is resumed again, the arguments of resume
\* are the results of the coroutine.yield that suspended it: as its body goes
\* on, after the CALL of yield, the result registers of that CALL hold them.
C2_ResumeArgsAreYieldResults ==
    (Len(history) > 0 /\ LastEvent.e = "resume" /\ ~LastEvent.first /\ LastEvent.was = "suspended") =>
        LET c == LastEvent.co
            inst == InstAt(c, coroutines[c].pc - 1)
        IN  /\ inst.name = "CALL"
            /\ \A i \in ResultRegisters(inst) :
                   ArrGet(coroutines[c].regs, inst.A + i) = Coalesce(ArrGet(LastEvent.args, i), LVNil)

\* C3: when a coroutine is resumed for the first time, the arguments of resume
\* are the parameters of its function: before its first instruction executes,
\* register i holds argument i for every i below param_count, nil if missing.
C3_FirstResumeArgsAreParameters ==
    (Len(history) > 0 /\ LastEvent.e = "resume" /\ LastEvent.first) =>
        LET c == LastEvent.co
        IN  \A i \in 0..(ProtoOf(coroutines[c]).paramCount - 1) :
                ArrGet(coroutines[c].regs, i) = Coalesce(ArrGet(LastEvent.args, i), LVNil)

\* The values the RETURN at pc of the finished frame c returns
ReturnedValues(c, pc) ==
    LET inst == InstAt(c, pc)
    IN  IF inst.B = 0 THEN ArrSlice(coroutines[c].regs, inst.A, coroutines[c].top)
        ELSE ArrSlice(coroutines[c].regs, inst.A, inst.A + inst.B - 1)

\* C4: when the body of a resumed coroutine executes RETURN, the coroutine is
\* dead and the next thing to happen is its resume returning (true, values...)
\* with the values of that RETURN.
C4_ReturnEndsCoroutine ==
    \A i \in Events("exec") :
        (history[i].name = "RETURN" /\ history[i].co \in Created) =>
            IF i = Len(history)
            THEN completion.kind = "return"
            ELSE /\ history[i + 1].e = "resumed"
                 /\ history[i + 1].co = history[i].co
                 /\ history[i + 1].ok
                 /\ history[i + 1].values = ReturnedValues(history[i].co, history[i].pc)
                 /\ coroutines[history[i].co].status = "dead"

\* C5: an error thrown inside a resumed coroutine is caught by its resume: the
\* coroutine is dead, the error does not end the run of the chunk, and the
\* next thing to happen is that resume returning (false, message).
C5_ErrorCaughtAtResume ==
    \A i \in Events("throw") :
        history[i].target # 0 =>
            /\ coroutines[history[i].target].status = "dead"
            /\ ~(completion.kind = "throw" /\ stack = << >>)
            /\ i < Len(history) =>
                   /\ history[i + 1].e = "resumed"
                   /\ history[i + 1].co = history[i].target
                   /\ ~history[i + 1].ok
                   /\ history[i + 1].values = << LVString(history[i].error.message) >>

\* The top activation is about to call coroutine.resume on the coroutine c
CallsResumeOn(c) ==
    /\ Dispatch("CALL")
    /\ ArrGet(Cur.regs, Inst.A) = LVFunction("resume")
    /\ ArrGet(CallArgs(Fetched, Inst), 0) = LVCoroutine(c)
\* s is "cannot resume ..."
IsCannotResume(s) ==
    s \in {LVString("cannot resume dead coroutine"),
           LVString("cannot resume running coroutine"),
           LVString("cannot resume non-suspended coroutine")}
\* The call of the top activation returns (false, "cannot resume ...") and the
\* coroutine c is as it was (but for the caller's own CALL, when it is c itself)
RefusesToResume(c) ==
    /\ stack' = stack
    /\ completion' = None
    /\ coroutines'[c].status = coroutines[c].status
    /\ c # Top.co => coroutines'[c] = coroutines[c]
    /\ 0 \in ResultRegisters(Inst) => ArrGet(coroutines'[Top.co].regs, Inst.A) = LVBoolean(FALSE)
    /\ 1 \in ResultRegisters(Inst) => IsCannotResume(ArrGet(coroutines'[Top.co].regs, Inst.A + 1))

\* C6: coroutine.resume on a coroutine that is not suspended, dead or running,
\* returns (false, "cannot resume ...") and enters no activation of it; its
\* status, pc and registers stay as they are.
C6_ResumeRefusesNonSuspended ==
    [][\A c \in DOMAIN coroutines :
          (CallsResumeOn(c) /\ coroutines[c].status # "suspended") => RefusesToResume(c)]_vars

YieldsOf(c) == Cardinality({i \in Events("yield") : history[i].target = c})
ReturnsOf(c) == Cardinality({i \in Events("exec") : history[i].name = "RETURN" /\ history[i].co = c})
ResumedOk(c) == Cardinality({i \in Events("resumed") : history[i].co = c /\ history[i].ok})

\* C7: coroutine parity: the resumes of a coroutine that returned true are as
\* many as its yields plus the return of its body, at most one yield or
\* return still being on its way to its resume.
C7_CoroutineParity ==
    \A c \in Created :
        /\ ResumedOk(c) <= YieldsOf(c) + ReturnsOf(c)
        /\ YieldsOf(c) + ReturnsOf(c) <= ResumedOk(c) + 1
        /\ (~BeingResumed(c) /\ completion.kind # "throw") => ResumedOk(c) = YieldsOf(c) + ReturnsOf(c)

\* The top activation is about to call coroutine.create on a function value
CallsCreateOnFunction ==
    /\ Dispatch("CALL")
    /\ ArrGet(Cur.regs, Inst.A) = LVFunction("create")
    /\ ArrGet(CallArgs(Fetched, Inst), 0).type = "function"

\* C8: coroutine.create(f), f a closure or a host function, returns a new
\* coroutine that is suspended with pc 0; it executes nothing of f and leaves
\* the globals and every other coroutine as they are.
C8_CreateAcceptsAnyFunction ==
    [][CallsCreateOnFunction =>
          /\ completion' = None
          /\ stack' = stack
          /\ Len(coroutines') = Len(coroutines) + 1
          /\ coroutines'[Len(coroutines')].status = "suspended"
          /\ coroutines'[Len(coroutines')].pc = 0
          /\ 0 \in ResultRegisters(Inst) =>
                 ArrGet(coroutines'[Top.co].regs, Inst.A) = LVCoroutine(Len(coroutines'))
          /\ tables' = tables
          /\ \A c \in DOMAIN coroutines : c # Top.co => coroutines'[c] = coroutines[c]]_vars

\* The open up-values of the heap h on register r of the frame f
OpenOn(h, f, r) ==
    {u \in DOMAIN h.upvals : h.upvals[u].isOpen /\ h.upvals[u].parentRegs = f /\ h.upvals[u].index = r}
HeapAfter == [coroutines |-> coroutines', closures |-> closures', upvals |-> upvals', tables |-> tables']
\* The up-value binding i that follows the CLOSURE at pc of the top activation
BindingInst(i) == decodeInst(CurProto.insts[Cur.pc + 2 + i])

\* CLOSURE leaves in register A a closure whose up-value bound by MOVE B is
\* the one open up-value on register B of the frame
ClosureSharesUpValues ==
    LET n == chunk.protos[CurProto.nestedProtos[Inst.Bx + 1]].upValueCount
        made == ArrGet(coroutines'[Top.co].regs, Inst.A)
    IN  /\ completion' = None
        /\ IsClosure(made)
        /\ \A i \in 0..(n - 1) :
               BindingInst(i).name = "MOVE" =>
                   OpenOn(HeapAfter, Top.co, BindingInst(i).B) = {UpValueAt(HeapAfter, made.closure, i)}

\* C9: up-value sharing: the closures made in a frame that capture a register
\* of it have one and the same up-value for it, so that what SETUPVAL writes
\* through it in one closure is what GETUPVAL reads through it in another,
\* while it is open and after it is closed.
C9_UpValueSharing ==
    [][/\ (Dispatch("CLOSURE") /\ chunk.protos[CurProto.nestedProtos[Inst.Bx + 1]].upValueCount > 0) =>
              ClosureSharesUpValues
       /\ (Dispatch("SETUPVAL") /\ UpValueAt(Heap, Cur.closure, Inst.B) # 0) =>
              /\ completion' = None
              /\ UpValueGet(HeapAfter, UpValueAt(Heap, Cur.closure, Inst.B)) = ArrGet(Cur.regs, Inst.A)
       /\ (Dispatch("GETUPVAL") /\ UpValueAt(Heap, Cur.closure, Inst.B) # 0) =>
              /\ completion' = None
              /\ ArrGet(coroutines'[Top.co].regs, Inst.A) =
                     UpValueGet(Heap, UpValueAt(Heap, Cur.closure, Inst.B))]_vars

\* The frame f has executed RETURN or TAILCALL
HasLeft(f) ==
    \E i \in Events("exec") : history[i].co = f /\ history[i].name \in {"RETURN", "TAILCALL"}
\* No up-value is open on a register of a frame that has executed RETURN or TAILCALL
NoOpenUpValueOnLeftFrame ==
    \A u \in DOMAIN upvals : upvals[u].isOpen => ~HasLeft(upvals[u].parentRegs)

\* C10: scope closing: once a frame has executed RETURN or TAILCALL no
\* up-value is open on a register of it, and once it has executed CLOSE A none
\* is open on a register >= A of it; an up-value that closes owns the value
\* its register holds at that moment, and a closed up-value stays closed.
C10_ScopeClosing ==
    [][/\ NoOpenUpValueOnLeftFrame'
       /\ Dispatch("CLOSE") =>
              \A u \in DOMAIN upvals' :
                  (upvals'[u].isOpen /\ upvals'[u].parentRegs = Top.co) => upvals'[u].index < Inst.A
       /\ \A u \in DOMAIN upvals :
              /\ u \in DOMAIN upvals'
              /\ (upvals[u].isOpen /\ ~upvals'[u].isOpen) =>
                     upvals'[u].value = ArrGet(coroutines[upvals[u].parentRegs].regs, upvals[u].index)
              /\ ~upvals[u].isOpen => ~upvals'[u].isOpen]_vars

\* A frame has made closures over two of its registers, closed the up-value of
\* the upper one with CLOSE and then, on RETURN, the other: both are closed
\* and own the values of their registers.
C10_Witness ==
    /\ chunk.name = "closeScope"
    /\ HasLeft(1)
    /\ \E i \in Events("exec") : history[i].co = 1 /\ history[i].name = "CLOSE"
    /\ Len(upvals) = 2
    /\ \A u \in DOMAIN upvals : ~upvals[u].isOpen
    /\ upvals[1].value = LVNumber(chunk.k1)
    /\ upvals[2].value = LVNumber(chunk.k2)

\* The frame f has an activation on the native stack
OnStack(f) == \E k \in DOMAIN stack : stack[k].co = f

\* C11: when an error has propagated out of frames, no up-value is open on a
\* register of a frame it has unwound: every up-value still open belongs to a
\* frame that is still on the native stack.
C11_ErrorClosesUpValues ==
    completion.kind = "throw" =>
        \A u \in DOMAIN upvals : upvals[u].isOpen => OnStack(upvals[u].parentRegs)

\* The activations on the native stack that wait in TAILCALL for their callee
TailCallers == {k \in DOMAIN stack : stack[k].inst.name = "TAILCALL"}

\* C12: tail call: a chain of TAILCALLs does not deepen the native stack with
\* its length: an activation that executes TAILCALL is replaced by its callee,
\* so that at most one activation on the stack is one that has made a tail call.
C12_TailCallDepth == Cardinality(TailCallers) <= 1

\* C13: register-file bound: no opcode writes a register at or above
\* max_stack_size of the frame's prototype, so that the register file of a
\* frame never has more than max_stack_size registers.
C13_RegisterFileBound ==
    \A c \in DOMAIN coroutines : Len(coroutines[c].regs) <= ProtoOf(coroutines[c]).maxStackSize


\* C14: a buffer whose first four bytes are not 1B 4C 75 61 makes the
\* constructor throw a chunk-format error before any prototype is read:
\* nothing is loaded, run() is not reached and nothing is executed.
HasSignature(buf) ==
    Len(buf) >= Len(LUA_SIGNATURE) /\ SubSeq(buf, 1, Len(LUA_SIGNATURE)) = LUA_SIGNATURE
C14_SignatureChecked ==
    ~HasSignature(data) =>
        /\ vm.state \in {"new", "failed"}
        /\ chunk.protos = << >> /\ tables = << >>
        /\ stack = << >> /\ history = << >>
        /\ vm.state = "failed" =>
              completion = [kind |-> "throw",
                            error |-> LuaCFormatError("invalid luac file, incorrect signature")]
C14_Witness == ~HasSignature(data) /\ vm.state = "failed"

\* C15: a chunk whose header declares an unsupported size (int, size_t,
\* instruction word or Lua number) or whose constant pool holds an unknown
\* tag fails to load with a chunk-format error, and no instruction of it is
\* ever executed.
UnsupportedSize(h) ==
    \/ h.intSize \notin {1, 2, 4, 8}
    \/ h.sizeTSize \notin {1, 2, 4, 8}
    \/ h.instSize \notin {1, 2, 4}
    \/ h.luaNumSize \notin (IF h.luaNumIsInt # 0 THEN {1, 2, 4, 8} ELSE {4, 8})
UnknownTag(protos) ==
    \E p \in DOMAIN protos : \E k \in DOMAIN protos[p].constants :
        "tag" \in DOMAIN protos[p].constants[k]
C15_UnsupportedChunkRejected ==
    (HasSignature(data) /\ (UnsupportedSize(Header(data)) \/ UnknownTag(chunk.encoded))) =>
        /\ vm.state \in {"new", "failed"}
        /\ history = << >>
        /\ vm.state = "failed" =>
              completion.kind = "throw" /\ completion.error.name = "LuaCFormatError"

\* C16: round trip: once a chunk is loaded, every prototype has the encoded
\* instruction words in order and every constant has the encoded tag and
\* value; a string constant has exactly the encoded payload bytes.
Plain(v) == IF "ref" \in DOMAIN v THEN LVString(v.str) ELSE v
SameConstant(encoded, loaded) ==
    IF "bytes" \in DOMAIN encoded
    THEN Plain(loaded) = LVString(StrOfBytes(encoded.bytes))
    ELSE Plain(loaded) = encoded
C16_RoundTrip ==
    vm.state \in {"constructed", "run"} =>
        /\ Len(chunk.protos) = Len(chunk.encoded)
        /\ \A p \in DOMAIN chunk.encoded :
              /\ chunk.protos[p].insts = chunk.encoded[p].insts
              /\ Len(chunk.protos[p].constants) = Len(chunk.encoded[p].constants)
              /\ \A k \in DOMAIN chunk.encoded[p].constants :
                    SameConstant(chunk.encoded[p].constants[k], chunk.protos[p].constants[k])

\* C17: the two error kinds are strictly distinguished: an instruction whose
\* opcode is none of the 38 opcodes raises a runtime error (LuaError, which
\* carries a source position) when it is reached, and a chunk-format error
\* (LuaCFormatError) is raised only by the binary reader, while loading.
C17_ErrorKindsDistinct ==
    /\ \A i \in Events("exec") :
          history[i].name = "undefined" =>
              /\ i < Len(history)
              /\ history[i + 1].e = "throw"
              /\ history[i + 1].error.name = "LuaError"
    /\ \A i \in Events("throw") : history[i].error.name # "LuaCFormatError"

\* C18: table length: in every table the writes of a run reach, if t[i] is
\* not nil for all i in 1..n and t[n+1] is nil (never assigned, or assigned
\* nil), the length operator returns n.
MaxIndex(t) == Max(0, CHOOSE m \in DOMAIN t.array \cup {0} : \A i \in DOMAIN t.array : i <= m)
IsBorder(t, n) ==
    /\ \A i \in 1..n : rawGet(t, LVNumber(i)) # LVNil
    /\ rawGet(t, LVNumber(n + 1)) = LVNil
C18_TableLength ==
    \A t \in DOMAIN tables : \A n \in 0..MaxIndex(tables[t]) :
        IsBorder(tables[t], n) => len(tables[t]) = LVNumber(n)

\* C19: writing nil removes the key: after a write of nil to the key k of a
\* table, k is not one of the keys next and pairs go through, and when k was
\* not a key before the write the table, its key order included, is unchanged.
IsKey(t, key) == \E i \in DOMAIN keys(t) : keys(t)[i] = OrderKey(key)
WritesNil(t, key) ==
    /\ Dispatch("SETTABLE")
    /\ ArrGet(Fetched.regs, Inst.A) = LVTable(t)
    /\ Plain(RK(Fetched, CurProto, Inst.B)) = key
    /\ RK(Fetched, CurProto, Inst.C) = LVNil
SampleKeys ==
    {LVString("a"), LVString("b"), LVString("true"), LVString("0"), LVBoolean(TRUE),
     LVNumber(0), LVNumber(1), LVNumber(2), LVNumber(3)}
    \cup {LVTable(t) : t \in DOMAIN tables}
C19_NilWriteRemovesKey ==
    [][\A t \in DOMAIN tables : \A key \in SampleKeys :
          WritesNil(t, key) =>
              /\ ~IsKey(tables'[t], key)
              /\ ~IsKey(tables[t], key) => tables'[t] = tables[t]]_vars

\* C20: key identity: after raw_set(k1, v) with v not nil, raw_get(k2)
\* returns v when k2 is the key k1 and what it returned before when k2 is
\* another key: strings are keys by their bytes, numbers by their value,
\* booleans and tables by identity, and keys of different types or two
\* distinct tables never share an entry.
Writes(t, key) ==
    /\ Dispatch("SETTABLE")
    /\ ArrGet(Fetched.regs, Inst.A) = LVTable(t)
    /\ RK(Fetched, CurProto, Inst.B) = key
    /\ RK(Fetched, CurProto, Inst.C) # LVNil
C20_KeyIdentity ==
    [][\A t \in DOMAIN tables : \A k1 \in SampleKeys : \A k2 \in SampleKeys :
          Writes(t, k1) =>
              rawGet(tables'[t], k2) =
                  IF k2 = k1 THEN RK(Fetched, CurProto, Inst.C) ELSE rawGet(tables[t], k2)]_vars

\* C21: traversal with next: starting from nil and calling next(t, k) with the
\* key returned last yields every key of t once, in insertion order, and
\* then nil; so the j-th call of a traversal returns the j-th key of t, and
\* the call after the last key returns nil.
NextCalls == SelectSeq(history, LAMBDA ev : ev.e = "next")
IsTraversal ==
    /\ chunk.name = "nextTraversal"
    /\ \A j \in DOMAIN NextCalls :
          NextCalls[j].lastKey = (IF j = 1 THEN LVNil ELSE NextCalls[j - 1].result[1])
C21_NextTraversal ==
    IsTraversal =>
        \A j \in DOMAIN NextCalls :
            /\ NextCalls[j].result # << >>
            /\ NextCalls[j].result[1] =
                  (IF j <= Len(NextCalls[j].keys) THEN wrap(NextCalls[j].keys[j]) ELSE LVNil)

\* C22: next(t, k) with a non-nil k that is not a key of t raises the runtime
\* error "invalid key to 'next'": it never returns a pair, nor nil, for a key
\* the table does not hold.
UnknownKey(ev) ==
    /\ ev.lastKey # Undefined
    /\ ev.lastKey.type # "nil"
    /\ \A i \in DOMAIN ev.keys : wrap(ev.keys[i]) # ev.lastKey
C22_NextUnknownKey ==
    \A j \in DOMAIN NextCalls : UnknownKey(NextCalls[j]) => NextCalls[j].result = << >>

\* C23: the call rule: a CALL of a value that is neither a host function nor a
\* closure (nil, a number, a string, a table, a coroutine) enters the value's
\* __call metamethod with the value put ahead of the arguments, and raises
\* "attempt to call a <type> value", executing nothing, when the value has no
\* __call.
Callee == ArrGet(Fetched.regs, Inst.A)
CallHandler == IF Callee = Undefined THEN Undefined ELSE getMeta(Heap, Callee, "__call")
EntersHandler ==
    /\ Len(stack') = Len(stack) + 1
    /\ LET frame == coroutines'[stack'[Len(stack')].co]
           passed == << Callee >> \o CallArgs(Fetched, Inst)
       IN  /\ LVClosure(frame.closure) = CallHandler
           /\ frame.pc = 0
           /\ \A i \in 1..Min(chunk.protos[closures[frame.closure].proto].paramCount, Len(passed)) :
                 frame.regs[i] = passed[i]
RaisesCallError ==
    /\ stack' = << >>
    /\ completion' = [kind |-> "throw",
                      error |-> LuaError("attempt to call a " \o Callee.type \o " value")]
C23_CallRule ==
    [][(Dispatch("CALL") /\ Callee.type # "function") =>
          IF CallHandler \in {Undefined, LVNil} THEN RaisesCallError ELSE EntersHandler]_vars

\* C24: metamethod transparency: when an addition is resolved by a metamethod,
\* the register A of the instruction receives the metamethod's result, the
\* first value only when it returns several and nil when it returns none.
MetamethodReturns ==
    /\ Len(stack) > 1
    /\ completion.kind = "return"
    /\ stack[Len(stack) - 1].inst.name = "ADD"
FirstResult == Coalesce(ArrGet(normalize(completion.result), 0), LVNil)
C24_MetamethodResult ==
    [][MetamethodReturns =>
          LET caller == stack[Len(stack) - 1]
          IN  ArrGet(coroutines'[caller.co].regs, caller.inst.A) = FirstResult]_vars

\* C25: __metatable protection: when the metatable a table has at a call holds
\* a non-nil __metatable field, setmetatable on the table raises a runtime
\* error and leaves the metatable (and every table) as it was, and
\* getmetatable returns the value of the field.
MetaTarget == ArrGet(CallArgs(Fetched, Inst), 0)
ProtectionField(v) ==
    LET metatable == tables[v.table].metatable
    IN  IF metatable \in {JSNull, Undefined} \/ metatable.type # "table" THEN LVNil
        ELSE rawGet(tables[metatable.table], LVString("__metatable"))
CallsOnProtected(name) ==
    /\ Dispatch("CALL")
    /\ Callee = LVFunction(name)
    /\ MetaTarget # Undefined
    /\ MetaTarget.type = "table"
    /\ ProtectionField(MetaTarget) # LVNil
C25_ProtectedMetatable ==
    [][/\ CallsOnProtected("setmetatable") =>
             /\ completion' = [kind |-> "throw",
                               error |-> LuaError("cannot change a protected metatable")]
             /\ tables' = tables
       /\ (CallsOnProtected("getmetatable") /\ Inst.C = 2) =>
             /\ completion'.kind = "none"
             /\ ArrGet(coroutines'[Top.co].regs, Inst.A) = ProtectionField(MetaTarget)]_vars
C25_Witness ==
    /\ \E i \in DOMAIN history : history[i].e = "setmetatable" /\ history[i].threw
    /\ \E i \in DOMAIN history : history[i].e = "getmetatable" /\ history[i].protected
    /\ \E i \in DOMAIN history : history[i].e = "setmetatable" /\ ~history[i].threw

\* C26: select('#', ...) returns the number of arguments after it;
\* select(n, ...) with 1 <= n <= count returns the arguments from the n-th on;
\* with -count <= n < 0 it returns the last -n arguments; with n = 0 or n
\* outside [-count, count] it raises "index out of range".
SelectCalls == SelectSeq(history, LAMBDA ev : ev.e = "select")
SelectRight(ev) ==
    LET count == Len(ev.args)
        n == ev.index.num
    IN  CASE ev.index = [type |-> "string", str |-> Chr(35)] ->
                ~ev.threw /\ ev.result = << LVNumber(count) >>
          [] ev.index.type = "number" /\ n >= 1 /\ n <= count ->
                ~ev.threw /\ ev.result = SubSeq(ev.args, n, count)
          [] ev.index.type = "number" /\ n < 0 /\ n >= 0 - count ->
                ~ev.threw /\ ev.result = SubSeq(ev.args, count + n + 1, count)
          [] ev.index.type = "number" /\ (n = 0 \/ n > count \/ n < 0 - count) -> ev.threw
          [] OTHER -> TRUE
C26_Select == \A j \in DOMAIN SelectCalls : SelectRight(SelectCalls[j])

\* C27: argument passing: a CALL of a closure with the arguments a1..an starts
\* the callee's frame at pc 0 with R[i-1] = ai for i <= min(n, paramCount)
\* and nil in every other register, the remaining parameters included.
CalleeFrameRight ==
    /\ Len(stack') = Len(stack) + 1
    /\ LET frame == coroutines'[stack'[Len(stack')].co]
           proto == chunk.protos[closures[Callee.closure].proto]
           passed == CallArgs(Fetched, Inst)
       IN  /\ frame.closure = Callee.closure
           /\ frame.pc = 0
           /\ Len(frame.regs) = proto.maxStackSize
           /\ \A i \in 1..proto.maxStackSize :
                 frame.regs[i] = IF i <= Min(Len(passed), proto.paramCount) THEN passed[i] ELSE LVNil
C27_ArgumentPassing == [][(Dispatch("CALL") /\ IsClosure(Callee)) => CalleeFrameRight]_vars

\* C28: the write-back of CALL: with C >= 2 the C - 1 registers from R[A] on
\* receive the callee's values, nil where it returned fewer, and no other
\* register changes; with C = 0 every value is written from R[A] on and top
\* is A + the number of values, which is 0 for a callee that returns nothing;
\* with C = 1 no register and not top changes.
WrittenBack(before, after, inst, values) ==
    LET written == IF inst.C = 0 THEN Len(values) ELSE inst.C - 1
    IN  /\ \A i \in 0..(Max(Len(before.regs), Len(after.regs)) - 1) :
              ArrGet(after.regs, i) =
                  IF i >= inst.A /\ i < inst.A + written
                  THEN Coalesce(ArrGet(values, i - inst.A), LVNil)
                  ELSE ArrGet(before.regs, i)
        /\ inst.C = 0 => after.top = inst.A + Len(values)
        /\ inst.C = 1 => after.top = before.top
\* The values a returning callee hands over: none when it returns nothing
Returned(result) ==
    IF result.tuple THEN result.values
    ELSE IF result.value = Undefined THEN << >> ELSE << result.value >>
ClosureReturnsToCall ==
    /\ Len(stack) > 1
    /\ completion.kind = "return"
    /\ Top.via = "call"
    /\ stack[Len(stack) - 1].inst.name = "CALL"
C28_CallWriteBack ==
    [][/\ ClosureReturnsToCall =>
             LET caller == stack[Len(stack) - 1]
             IN  WrittenBack(coroutines[caller.co], coroutines'[caller.co], caller.inst,
                             Returned(completion.result))
       /\ (Dispatch("CALL") /\ Callee = LVFunction("print")
              /\ \A i \in DOMAIN CallArgs(Fetched, Inst) : IsLVBase(CallArgs(Fetched, Inst)[i])) =>
             WrittenBack(Fetched, coroutines'[Top.co], Inst, << >>)]_vars

\* C29: while the frame that owns a captured local is executing and the local
\* is in scope, its register and the up-value stay one variable, jumps of the
\* frame notwithstanding: GETUPVAL in the closure reads the register's
\* current value and SETUPVAL writes the register.  The main frame of the
\* chunks sharing and jumpAlias captures its register 0 for its whole run.
CapturedRegister == ArrGet(coroutines[stack[1].co].regs, 0)
InClosureOfMain ==
    /\ chunk.name \in {"sharing", "jumpAlias"}
    /\ Len(stack) > 1
C29_AliasAcrossJumps ==
    [][/\ (InClosureOfMain /\ Dispatch("GETUPVAL")) =>
             ArrGet(coroutines'[Top.co].regs, Inst.A) = CapturedRegister
       /\ (InClosureOfMain /\ Dispatch("SETUPVAL")) =>
             ArrGet(coroutines'[stack[1].co].regs, 0) = ArrGet(Fetched.regs, Inst.A)]_vars

\* C30: TFORLOOP leaves the loop when the first value of the iterator is nil,
\* whatever C: the next instruction executed is the one after the back-jump
\* that follows TFORLOOP; and a generic for over pairs(t) follows its
\* back-jump once per key of t, then ends.
FirstIsNil(values) == Coalesce(ArrGet(values, 0), LVNil) = LVNil
ClosureIteratorEnds ==
    /\ Len(stack) > 1
    /\ completion.kind = "return"
    /\ stack[Len(stack) - 1].inst.name = "TFORLOOP"
    /\ FirstIsNil(normalize(completion.result))
HostIteratorEnds ==
    /\ Dispatch("TFORLOOP")
    /\ IsHost(ArrGet(Fetched.regs, Inst.A))
    /\ Len(stack') = Len(stack)
    /\ history'[Len(history')].e = "next"
    /\ FirstIsNil(history'[Len(history')].result)
BackJumps == Len(SelectSeq(history, LAMBDA ev : ev.e = "exec" /\ ev.name = "JMP"))
PairsLoopCounted ==
    chunk.name = "pairsFor" =>
        /\ BackJumps <= 2
        /\ (stack = << >> /\ completion.kind = "return") => BackJumps = 2
C30_GenericForExit ==
    [][/\ ClosureIteratorEnds =>
             coroutines'[stack[Len(stack) - 1].co].pc = coroutines[stack[Len(stack) - 1].co].pc + 1
       /\ HostIteratorEnds => coroutines'[Top.co].pc = Fetched.pc + 1
       /\ PairsLoopCounted']_vars

\* C31: JMP adds sBx to pc and closes the open up-values of the frame on the
\* registers A - 1 and above, and no other: an up-value on a lower register
\* stays open, and each up-value closed keeps the value of its register.
OpenInFrame(u, frame) == upvals[u].isOpen /\ upvals[u].parentRegs = frame
C31_JumpCloses ==
    [][Dispatch("JMP") =>
          /\ coroutines'[Top.co].pc = Cur.pc + 1 + Inst.sBx
          /\ \A u \in DOMAIN upvals :
                OpenInFrame(u, Top.co) =>
                    IF upvals[u].index >= Inst.A - 1
                    THEN /\ ~upvals'[u].isOpen
                         /\ upvals'[u].value = ArrGet(Cur.regs, upvals[u].index)
                    ELSE upvals'[u] = upvals[u]]_vars
C31_Witness ==
    /\ chunk.name = "jumpClose"
    /\ Len(history) > 0
    /\ history[Len(history)].e = "exec"
    /\ history[Len(history)].name = "JMP"
    /\ \E u, v \in DOMAIN upvals : upvals[u].isOpen /\ ~upvals[v].isOpen

\* C32: TEST A C decides on R[A]: the next instruction is skipped exactly
\* when the truth of R[A] differs from (C # 0), and no register is written;
\* TESTSET A B C decides on R[B] and copies R[B] into R[A] only when it does
\* not skip.
LuaTruthy(v) == v \notin {LVNil, LVBoolean(FALSE)}
Skips == coroutines'[Top.co].pc = Cur.pc + 2
Continues == coroutines'[Top.co].pc = Cur.pc + 1
C32_TestDecides ==
    [][/\ Dispatch("TEST") =>
             /\ IF LuaTruthy(ArrGet(Cur.regs, Inst.A)) # (Inst.C # 0) THEN Skips ELSE Continues
             /\ coroutines'[Top.co].regs = Cur.regs
       /\ Dispatch("TESTSET") =>
             IF LuaTruthy(ArrGet(Cur.regs, Inst.B)) # (Inst.C # 0)
             THEN Skips /\ coroutines'[Top.co].regs = Cur.regs
             ELSE Continues /\ coroutines'[Top.co].regs = ArrSet(Cur.regs, Inst.A, ArrGet(Cur.regs, Inst.B))]_vars

\* C33: numeric for.  With integer init a, limit b and step s # 0, FORPREP
\* followed by repeated FORLOOP runs the body once for each i = a, a + s, ...
\* that does not pass b (never when a has already passed b), with R[A + 3] = i
\* in each iteration, then falls through; the loop terminates.
ForLoopRuns == {i \in Events("exec") : history[i].name = "FORLOOP"}
ForInit == chunk.protos[1].constants[1].num
ForLimit == chunk.protos[1].constants[2].num
ForStepOf == IF chunk.name = "forDown" THEN 0 - chunk.protos[1].constants[3].num
             ELSE chunk.protos[1].constants[3].num
ForPassed(i) == IF ForStepOf > 0 THEN i > ForLimit ELSE i < ForLimit
MaxIterations == 8
\* the number of values a, a + s, ... that do not pass b
ForCount == Cardinality({k \in 0 .. MaxIterations : ~ForPassed(ForInit + k * ForStepOf)})
ForLoopAt == IF chunk.name = "forDown" THEN 5 ELSE 4
C33_NumericFor ==
    (chunk.name \in {"forUp", "forDown"} /\ ForLoopRuns # {}) =>
        LET n == Cardinality(ForLoopRuns)
            i == ForInit + (n - 1) * ForStepOf
            frame == coroutines[history[CHOOSE e \in ForLoopRuns : TRUE].co]
        IN  /\ n <= ForCount + 1
            /\ IF ForPassed(i)
               THEN n = ForCount + 1 /\ frame.pc > ForLoopAt
               ELSE /\ n <= ForCount
                    /\ frame.pc = ForLoopAt
                    /\ ArrGet(frame.regs, 3) = LVNumber(i)
C33_Witness ==
    /\ chunk.name = "forDown"
    /\ Len(history) > 0
    /\ LastEvent.e = "exec" /\ LastEvent.name = "RETURN"
    /\ Cardinality(ForLoopRuns) = 3
    /\ ForCount = 2

\* C34: LOADBOOL A B C sets R[A] to true exactly when B # 0 and, when C # 0,
\* advances pc by one more so that the next instruction is skipped; when
\* C = 0 the next instruction executes normally.
C34_LoadBool ==
    [][Dispatch("LOADBOOL") =>
          /\ ArrGet(coroutines'[Top.co].regs, Inst.A) = LVBoolean(Inst.B # 0)
          /\ completion'.kind = "none"
          /\ coroutines'[Top.co].pc = Cur.pc + (IF Inst.C # 0 THEN 2 ELSE 1)]_vars

\* C35: concatenating operands that are strings or numbers never raises:
\* string .. string is the byte-wise concatenation (its length the sum of the
\* lengths), and a number operand is first formatted as decimal text.
\* __concat is consulted only for an operand that is neither.
TextOf(v) == IF v.type = "number" THEN NumberToString(v.num) ELSE v.str
IsText(v) == IsLVBase(v) /\ v.type \in {"string", "number"}
C35_ConcatText ==
    [][(Dispatch("CONCAT") /\ Inst.C = Inst.B + 1
        /\ IsText(ArrGet(Cur.regs, Inst.B)) /\ IsText(ArrGet(Cur.regs, Inst.C))) =>
          /\ completion'.kind = "none"
          /\ ArrGet(coroutines'[Top.co].regs, Inst.A)
                = LVString(TextOf(ArrGet(Cur.regs, Inst.B)) \o TextOf(ArrGet(Cur.regs, Inst.C)))]_vars

\* C36: values of different types are never equal, and two strings are equal
\* exactly when they have the same bytes, whichever objects hold them: a
\* constant, a constant of another prototype or the result of an operation.
EqDecides(equal) == /\ completion'.kind = "none"
                    /\ coroutines'[Top.co].pc = Cur.pc + (IF equal # (Inst.A # 0) THEN 2 ELSE 1)
EqLeft == ArrGet(Cur.regs, Inst.B)
EqRight == ArrGet(Cur.regs, Inst.C)
C36_StringEquality ==
    [][(Dispatch("EQ") /\ IsLVBase(EqLeft) /\ IsLVBase(EqRight)) =>
          /\ EqLeft.type # EqRight.type => EqDecides(FALSE)
          /\ (EqLeft.type = "string" /\ EqRight.type = "string") =>
                EqDecides(EqLeft.str = EqRight.str)]_vars

\* C37: for an arithmetic operation whose operands are not both numeric the
\* metamethod is looked up on the left operand and then on the right one:
\* number + (table with __add) invokes that __add with (left, right) and
\* does not raise.
AddLeft == first(RK(Cur, CurProto, Inst.B))
AddRight == first(RK(Cur, CurProto, Inst.C))
HasAdd(v) ==
    /\ IsLVBase(v) /\ v.type = "table"
    /\ ~NoMetatable(Heap, v) /\ ~MetatableBroken(Heap, v)
    /\ getMeta(Heap, v, "__add").type = "function"
C37_RightOperandHandler ==
    [][(Dispatch("ADD") /\ IsLVBase(AddLeft) /\ AddLeft.type = "number" /\ HasAdd(AddRight)) =>
          /\ completion'.kind # "throw"
          /\ Len(stack') = Len(stack) + 1
          /\ coroutines'[stack'[Len(stack')].co].closure = getMeta(Heap, AddRight, "__add").closure
          /\ coroutines'[stack'[Len(stack')].co].args.items = << AddLeft, AddRight >>]_vars

\* C38: dead is absorbing: once the status of a coroutine is dead it never
\* changes again and none of its instructions executes again, whether the
\* coroutine is resumed or its value is called directly.
Added == {i \in DOMAIN history' : i > Len(history)}
C38_DeadIsAbsorbing ==
    [][\A c \in DOMAIN coroutines :
          coroutines[c].status = "dead" =>
              /\ coroutines'[c].status = "dead"
              /\ \A i \in Added : ~(history'[i].e = "exec" /\ history'[i].co = c)]_vars

\* C39: frame isolation.  Every call of a Lua closure runs on a fresh
\* register file: the callee's register writes change no register of another
\* frame except one an open up-value refers to; when a CALL returns, the
\* caller's registers below R[A] are unchanged; and two activations of the
\* same closure never share their registers or pc.
RegisterChanged(f, p) ==
    p \notin DOMAIN coroutines[f].regs \/ coroutines'[f].regs[p] # coroutines[f].regs[p]
OthersKeep(f) ==
    \A p \in DOMAIN coroutines'[f].regs :
        RegisterChanged(f, p) => \E u \in DOMAIN upvals : OpenInFrame(u, f) /\ upvals[u].index = p - 1
Receiver == stack[Len(stack) - 1]
SharedFrames == {stack[j].co : j \in {j \in DOMAIN stack : \E k \in DOMAIN stack : k # j /\ stack[k].co = stack[j].co}}
C39_FrameIsolation ==
    [][/\ CanFetch => \A f \in DOMAIN coroutines : f # Top.co => OthersKeep(f)
       /\ (Dispatch("CALL") /\ IsClosure(Callee) /\ Len(stack') > Len(stack)) =>
             /\ stack'[Len(stack')].co = Len(coroutines) + 1
             /\ coroutines'[Len(coroutines) + 1].pc = 0
             /\ coroutines'[Top.co].regs = Cur.regs
       /\ (completion.kind = "return" /\ Len(stack) > 1 /\ Receiver.inst.name = "CALL") =>
             /\ \A f \in DOMAIN coroutines : f # Receiver.co => coroutines'[f].regs = coroutines[f].regs
             /\ \A i \in 0 .. (Receiver.inst.A - 1) :
                   ArrGet(coroutines'[Receiver.co].regs, i) = ArrGet(coroutines[Receiver.co].regs, i)
       /\ SharedFrames \subseteq Created]_vars
C39_Witness ==
    /\ chunk.name = "recurse"
    /\ Cardinality({i \in Events("exec") : history[i].name = "CALL"}) = 2
    /\ Len(stack) = 1 /\ completion.kind = "none"
    /\ ArrGet(coroutines[1].regs, 3) = LVNumber(chunk.k1)
    /\ ArrGet(coroutines[1].regs, 1) = LVNumber(chunk.k2 + 2)

\* C40: every value other than nil and false is truthy for TEST, TESTSET
\* and NOT: numbers (0 too), strings (the empty one too), tables, host
\* functions, closures and coroutine (thread) values.  TEST is taken where
\* the register it names is also the one its handler reads (A = B).
NotOperand == RK(Cur, CurProto, Inst.B)
C40_Truthiness ==
    [][/\ (Dispatch("NOT") /\ IsLVBase(NotOperand)) =>
             ArrGet(coroutines'[Top.co].regs, Inst.A) = LVBoolean(~LuaTruthy(NotOperand))
       /\ (Dispatch("TESTSET") /\ IsLVBase(ArrGet(Cur.regs, Inst.B))) =>
             IF LuaTruthy(ArrGet(Cur.regs, Inst.B)) # (Inst.C # 0) THEN Skips ELSE Continues
       /\ (Dispatch("TEST") /\ Inst.A = Inst.B /\ IsLVBase(ArrGet(Cur.regs, Inst.A))) =>
             IF LuaTruthy(ArrGet(Cur.regs, Inst.A)) # (Inst.C # 0) THEN Skips ELSE Continues]_vars
=============================================================================
